---- MODULE Spec2Model ----
(***************************************************************************)
(* A model of the focus.lang compiler (src/src/compiler.rs) and bytecode   *)
(* virtual machine (src/src/vm.rs).  Programs are given as syntax trees of *)
(* src/src/ast.rs, lowered to prototypes by the operators of the compiler  *)
(* section, and executed opcode by opcode by the actions of the VM section.*)
(* Indices inside opcodes are 0-based as in the source; sequences are      *)
(* 1-based, so an index k addresses element k + 1.                         *)
(***************************************************************************)
EXTENDS Integers, Sequences, FiniteSets, TLC

(***************************************************************************)
(* Bounds of the model                                                     *)
(***************************************************************************)
\* number of calls made on the counter closure of the counter program
MaxCalls == 3
\* deepest nesting of functions below the owner of a captured local
MaxNest == 3
\* elements of the array handed to Iter.map
MaxArr == 2
MaxModules == 4
MaxRuns == 2
MaxHeap == 2

(***************************************************************************)
(* Program constants                                                       *)
(***************************************************************************)
U8Max == 255

\* NUM_FRAMES of vm.rs: the capacity the frame vector is created with
NUM_FRAMES == 64

\* usize::MAX, which Vm::call and Vm::call_native compare frames.len() with:
\* 2^64 - 1 (2^32 - 1 on wasm32); written as the largest integer the checker
\* represents, which every frame count followed here stays far below
UsizeMax == 2147483647

\* the depth of nested Vm::call activations followed before the host's own
\* stack is taken to be exhausted
HostDepth == 66

(***************************************************************************)
(* Syntax trees (src/src/ast.rs)                                            *)
(***************************************************************************)
NoExpr == [e |-> "none"]
IntLit(n) == [e |-> "int", n |-> n]

\* a string literal; strings are named by their position in Strings
Strings == <<"a", "b">>

StrLit(i) == [e |-> "string", s |-> i]
UnitLit == [e |-> "unit"]
BoolLit(b) == [e |-> "bool", b |-> b]
PathOf(id, parts) == [e |-> "path", ident |-> id, parts |-> parts]
Name(id) == PathOf(id, <<>>)
PartIdent(id) == [p |-> "ident", ident |-> id]
PartIndex(x) == [p |-> "index", expr |-> x]
Operation(op, l, r) == [e |-> "op", operation |-> op, lhs |-> l, rhs |-> r]
Assign(l, r) == Operation("Assignment", l, r)
UnaryOperation(op, x) == [e |-> "unary", operation |-> op, operand |-> x]
Block(stmts) == [e |-> "block", stmts |-> stmts]
CallOf(c, args) == [e |-> "call", callee |-> c, args |-> args]
Fn(args, body) == [e |-> "fn", args |-> args, expr |-> body]
If(c, t, el) == [e |-> "if", condition |-> c, block |-> t, else |-> el]
ArrayOf(items) == [e |-> "array", items |-> items]
Let(id, v) == [s |-> "let", ident |-> id, value |-> v]
\* Statement::Import of ImportSource::File with Import::All { alias: None }
Import(file) == [s |-> "import", ident |-> "", file |-> file]
FunctionStmt(id, args, body) == [s |-> "function", ident |-> id, args |-> args, expr |-> body]
ExprStmt(x) == [s |-> "expr", expression |-> x]

IsExpression(st) == st.s = "expr"

(***************************************************************************)
(* Values (src/src/value.rs).  v is the payload: the integer, 0/1 for a    *)
(* bool, the heap address of a closure or array, the index of a module.    *)
(***************************************************************************)
VUnit == [t |-> "unit", v |-> 0]
VBool(b) == [t |-> "bool", v |-> IF b THEN 1 ELSE 0]
VInt(n) == [t |-> "int", v |-> n]
VClosure(id) == [t |-> "closure", v |-> id]
VArray(id) == [t |-> "array", v |-> id]
VTable(id) == [t |-> "table", v |-> id]
VModule(i) == [t |-> "module", v |-> i]

VString(i) == [t |-> "string", v |-> i]

is_false(val) == val.t = "unit" \/ (val.t = "bool" /\ val.v = 0) \/ (val.t = "int" /\ val.v = 0)

(***************************************************************************)
(* Compiler state (src/src/compiler.rs, src/src/state.rs)                   *)
(*                                                                         *)
(* A CompilerState holds the prototype under construction and its          *)
(* ScopeResolver.  The Rc<RefCell<CompilerState>> graph is a sequence      *)
(* `states`; parent and defined_states hold positions in it (0: None).     *)
(***************************************************************************)
Op(name, arg) == [op |-> name, a |-> arg]

CompilerState(ident, anon, depth, parent) ==
    [ parent |-> parent, ident |-> ident, is_anonymous |-> anon,
      code |-> <<>>, lines |-> <<>>, constants |-> <<>>, num_args |-> 0,
      upvalues |-> <<>>, debug_locals |-> <<>>, defined_states |-> <<>>,
      locals |-> <<>>, depth |-> depth, base_depth |-> depth ]

Compiler(loader) ==
    [ states |-> << CompilerState("<main>", TRUE, 0, 0) >>, state |-> 1,
      module_locals |-> <<>>, module_provider |-> loader, module_aliases |-> <<>>,
      line_no |-> 1, err |-> "" ]

Cur(c) == c.states[c.state]

Failed(c) == c.err # ""

Fail(c, e) == IF Failed(c) THEN c ELSE [c EXCEPT !.err = e]

\* ScopeResolver
RECURSIVE CountInScope(_, _, _)
CountInScope(locals, depth, i) ==
    IF i = 0 THEN 0
    ELSE IF locals[i].depth >= depth THEN 1 + CountInScope(locals, depth, i - 1)
    ELSE 0

num_locals_defined_in_scope(s) == CountInScope(s.locals, s.depth, Len(s.locals))

resolver_begin_scope(s) == [s EXCEPT !.depth = s.depth + 1]

\* an end_scope that forgets every local
resolver_end_scope_all(s) ==
    [s EXCEPT !.depth = IF s.depth > s.base_depth THEN s.depth - 1 ELSE s.depth,
              !.locals = <<>>]

resolver_end_scope(s) ==
    LET n == num_locals_defined_in_scope(s)
    IN  [s EXCEPT !.depth = IF s.depth > s.base_depth THEN s.depth - 1 ELSE s.depth,
                  !.locals = SubSeq(s.locals, 1, Len(s.locals) - n)]

RECURSIVE ResolveFrom(_, _, _)
ResolveFrom(locals, ident, i) ==
    IF i = 0 THEN -1
    ELSE IF locals[i].ident = ident THEN i - 1
    ELSE ResolveFrom(locals, ident, i - 1)

\* latest-wins scan; -1 is None
resolve_local(s, ident) == ResolveFrom(s.locals, ident, Len(s.locals))

mark_captured(s, index) == [s EXCEPT !.locals[index + 1].is_captured = TRUE]

\* an emit_code that records no line
emit_code_without_line(c, o) ==
    IF Failed(c) THEN c
    ELSE [c EXCEPT !.states[c.state].code = Append(@, o)]

\* Compiler::emit_code with Prototype::push_op_code
emit_code(c, o) ==
    IF Failed(c) THEN c
    ELSE [c EXCEPT !.states[c.state].code = Append(@, o),
                   !.states[c.state].lines = Append(@, c.line_no)]

\* Compiler::add_local with ScopeResolver::add_local and Prototype::add_local
add_local(c, ident) ==
    IF Failed(c) THEN c
    ELSE IF Len(Cur(c).locals) > U8Max THEN Fail(c, "MaxNumberOfLocalsExceeded")
    ELSE LET local == [ident |-> ident, depth |-> Cur(c).depth, is_captured |-> FALSE]
         IN  [c EXCEPT !.states[c.state].locals = Append(@, local),
                       !.states[c.state].debug_locals = Append(@, local)]

begin_scope(c) ==
    IF Failed(c) THEN c ELSE [c EXCEPT !.states[c.state] = resolver_begin_scope(@)]

RECURSIVE EmitCloses(_, _, _, _)
EmitCloses(c, num_locals, size, i) ==
    IF i >= size THEN c
    ELSE EmitCloses(
            IF Cur(c).locals[num_locals - i].is_captured
            THEN emit_code(c, Op("CloseUpvalue", (num_locals - 1 - i) % (U8Max + 1)))
            ELSE c,
            num_locals, size, i + 1)

end_scope(c) ==
    IF Failed(c) THEN c
    ELSE LET size == num_locals_defined_in_scope(Cur(c))
             num_locals == Len(Cur(c).locals)
             closed == EmitCloses(c, num_locals, size, 0)
         IN  [closed EXCEPT !.states[c.state] = resolver_end_scope(@)]

\* Prototype::add_constant: -1 is None
PositionOf(seq, x, i) ==
    IF \A j \in i..Len(seq) : seq[j] # x THEN -1
    ELSE (CHOOSE j \in i..Len(seq) : seq[j] = x /\ \A k \in i..j - 1 : seq[k] # x) - 1

proto_add_constant(s, value) ==
    IF Len(s.constants) > U8Max THEN [s |-> s, idx |-> -1]
    ELSE IF PositionOf(s.constants, value, 1) >= 0
         THEN [s |-> s, idx |-> PositionOf(s.constants, value, 1) % (U8Max + 1)]
    ELSE [s |-> [s EXCEPT !.constants = Append(@, value)],
          idx |-> Len(s.constants) % (U8Max + 1)]

\* a constant that emits LoadInt for every integer
constant_always_LoadInt(c, value) ==
    IF Failed(c) THEN c
    ELSE IF value.t = "unit" THEN emit_code(c, Op("LoadUnit", 0))
    ELSE IF value.t = "bool"
         THEN emit_code(c, Op(IF value.v = 1 THEN "LoadTrue" ELSE "LoadFalse", 0))
    ELSE IF value.t = "int" THEN emit_code(c, Op("LoadInt", value.v % (U8Max + 1)))
    ELSE Fail(c, "NotAValidConstant")

\* Compiler::constant (with Compiler::add_constant)
constant(c, value) ==
    IF Failed(c) THEN c
    ELSE IF value.t = "unit" THEN emit_code(c, Op("LoadUnit", 0))
    ELSE IF value.t = "bool"
         THEN emit_code(c, Op(IF value.v = 1 THEN "LoadTrue" ELSE "LoadFalse", 0))
    ELSE IF value.t = "int" /\ value.v <= U8Max
         THEN emit_code(c, Op("LoadInt", value.v % (U8Max + 1)))
    ELSE IF value.t \in {"int", "string"}
         THEN LET r == proto_add_constant(Cur(c), value)
              IN  IF r.idx < 0 THEN Fail(c, "MaxNumberOfConstsExceeded")
                  ELSE emit_code([c EXCEPT !.states[c.state] = r.s], Op("LoadConst", r.idx))
    ELSE Fail(c, "NotAValidConstant")

\* Compiler::emit_jump; the index it returns is Len(code) before the call
emit_jump(c, name) == emit_code(emit_code(c, Op(name, 0)), Op("ExtraArg", 0))

patch_jump(c, index) ==
    IF Failed(c) THEN c
    ELSE LET len == Len(Cur(c).code) - 2 - index
         IN  [c EXCEPT !.states[c.state].code[index + 1].a = len % (U8Max + 1),
                       !.states[c.state].code[index + 2].a = (len \div (U8Max + 1)) % (U8Max + 1)]


\* Compiler::add_upvalue: always on the prototype of the function being
\* compiled (self.state), deduplicated on (index, is_local)
RECURSIVE UpvaluePosition(_, _, _, _)
UpvaluePosition(ups, index, is_local, i) ==
    IF i > Len(ups) THEN -1
    ELSE IF ups[i].index = index /\ ups[i].is_local = is_local THEN i - 1
    ELSE UpvaluePosition(ups, index, is_local, i + 1)

add_upvalue(c, index, is_local) ==
    LET ups == Cur(c).upvalues
        found == UpvaluePosition(ups, index, is_local, 1)
    IN  IF found >= 0 THEN [c |-> c, idx |-> found]
        ELSE [c |-> [c EXCEPT !.states[c.state].upvalues =
                                  Append(@, [index |-> index, is_local |-> is_local])],
              idx |-> Len(ups)]

\* Compiler::resolve_upvalue(ident, state); idx -1 is None
RECURSIVE resolve_upvalue(_, _, _)
resolve_upvalue(c, ident, state) ==
    LET parent == c.states[state].parent
    IN  IF parent = 0 THEN [c |-> c, idx |-> -1]
        ELSE LET local == resolve_local(c.states[parent], ident)
             IN  IF local >= 0
                 THEN add_upvalue([c EXCEPT !.states[parent] = mark_captured(@, local)],
                                  local, TRUE)
                 ELSE LET grand == c.states[parent].parent
                      IN  IF grand = 0 THEN [c |-> c, idx |-> -1]
                          ELSE LET up == resolve_upvalue(c, ident, grand)
                               IN  IF up.idx >= 0 THEN add_upvalue(up.c, up.idx, FALSE)
                                   ELSE [c |-> c, idx |-> -1]

NoOp == Op("none", 0)

\* Compiler::resolve_name: (getter, setter), or found = FALSE for None
resolve_name(c, ident) ==
    LET local == resolve_local(Cur(c), ident)
        up == resolve_upvalue(c, ident, c.state)
    IN  IF local >= 0
        THEN [c |-> c, found |-> TRUE,
              getter |-> Op("GetLocal", local % (U8Max + 1)),
              setter |-> Op("SetLocal", local % (U8Max + 1))]
        ELSE IF up.idx >= 0
        THEN [c |-> up.c, found |-> TRUE,
              getter |-> Op("GetUpvalue", up.idx % (U8Max + 1)),
              setter |-> Op("SetUpvalue", up.idx % (U8Max + 1))]
        ELSE [c |-> c, found |-> FALSE, getter |-> NoOp, setter |-> NoOp]

\* ModuleLoader::module / Module::local: position of the first match, -1 is None
RECURSIVE IdentPosition(_, _, _)
IdentPosition(mods, ident, i) ==
    IF i > Len(mods) THEN -1
    ELSE IF mods[i].ident = ident THEN i - 1
    ELSE IdentPosition(mods, ident, i + 1)

loader_module(loader, ident) == IdentPosition(loader, ident, 1)

module_local(m, ident) == PositionOf(m.locals, ident, 1)

resolve_module_alias(c, ident) == IdentPosition(c.module_aliases, ident, 1)

ComparisonOp(name) ==
    CASE name = "Less" -> "CmpLess"
      [] name = "LessEqual" -> "CmpLEq"
      [] name = "Equal" -> "CmpEq"
      [] name = "NotEqual" -> "CmpNEq"
      [] name = "GreaterEqual" -> "CmpGEq"
      [] name = "Greater" -> "CmpGreater"
      [] name = "And" -> "CmpAnd"
      [] name = "Or" -> "CmpOr"
      [] OTHER -> name

RECURSIVE Expression(_, _), Statement(_, _), BlockFrom(_, _, _), ExprsFrom(_, _, _),
          PathParts(_, _, _, _), AssignParts(_, _, _), function(_, _, _, _, _),
          assignment(_, _, _), assign(_, _, _, _), path(_, _, _), if_block(_, _), if_else(_, _, _)

EmitIf(c, cond, o) == IF cond THEN emit_code(c, o) ELSE c

\* Compiler::statement (Let, Function and Expression; an Import reads a file)
Statement(c, st) ==
    IF Failed(c) THEN c
    ELSE IF st.s = "let"
         THEN add_local(IF st.value.e # "none" THEN Expression(c, st.value)
                        ELSE emit_code(c, Op("LoadUnit", 0)),
                        st.ident)
    ELSE IF st.s = "function"
         THEN add_local(function(c, st.ident, st.args, st.expr, FALSE), st.ident)
    ELSE Expression(c, st.expression)

\* the loop of Compiler::expression (Expression::Block)
BlockFrom(c, stmts, i) ==
    IF i > Len(stmts) \/ Failed(c) THEN c
    ELSE LET st == stmts[i]
             block_len == Len(stmts) - 1
             is_expression == IsExpression(st)
             pop == ~(is_expression /\ st.expression.e = "call")
             is_assignment == is_expression /\ st.expression.e = "op"
                                /\ st.expression.operation = "Assignment"
         IN  BlockFrom(
                EmitIf(EmitIf(Statement(c, st),
                              i - 1 < block_len /\ is_expression /\ pop /\ ~is_assignment,
                              Op("Pop", 0)),
                       i - 1 = block_len /\ is_assignment,
                       Op("LoadUnit", 0)),
                stmts, i + 1)

ExprsFrom(c, xs, i) ==
    IF i > Len(xs) \/ Failed(c) THEN c
    ELSE ExprsFrom(Expression(c, xs[i]), xs, i + 1)

\* a PathPart::Ident under a module: the index of the export as a constant
module_part(c, module, ident) ==
    IF module_local(module, ident) < 0 THEN Fail(c, "NameNotFound")
    ELSE constant(c, VInt(module_local(module, ident)))

\* the parts loop of Compiler::expression (Expression::Path)
PathParts(c, parts, i, getter) ==
    IF i > Len(parts) \/ Failed(c) THEN c
    ELSE PathParts(
            emit_code(IF parts[i].p = "ident"
                      THEN IF getter.op = "GetModule"
                           THEN module_part(c, c.module_provider[getter.a + 1], parts[i].ident)
                           ELSE Fail(c, "StringConstant")
                      ELSE Expression(c, parts[i].expr),
                      Op("GetTable", 0)),
            parts, i + 1, getter)

\* the parts loop of Compiler::assignment
AssignParts(c, parts, i) ==
    IF i > Len(parts) \/ Failed(c) THEN c
    ELSE AssignParts(
            EmitIf(IF parts[i].p = "ident" THEN Fail(c, "StringConstant")
                   ELSE Expression(c, parts[i].expr),
                   i - 1 < Len(parts) - 1,
                   Op("GetTable", 0)),
            parts, i + 1)

\* Compiler::assignment once the name is resolved: r of resolve_name, module of resolve_module
assign(lhs, rhs, r, module) ==
    IF ~r.found /\ module < 0 THEN Fail(r.c, "NameNotFound")
    ELSE IF lhs.parts = <<>>
         THEN IF r.found THEN emit_code(Expression(r.c, rhs), r.setter)
              ELSE Fail(Expression(r.c, rhs), "CannotSetTheValueOfAModule")
    ELSE emit_code(
            Expression(
                AssignParts(emit_code(r.c, IF r.found THEN r.getter
                                           ELSE Op("GetModule", module % (U8Max + 1))),
                            lhs.parts, 1),
                rhs),
            Op("SetTable", 0))

assignment(c, lhs, rhs) ==
    IF Failed(c) THEN c
    ELSE assign(lhs, rhs, resolve_name(c, lhs.ident), loader_module(c.module_provider, lhs.ident))

\* one argument of Compiler::function: add_local, num_args += 1, the limit
add_arg(c, checked) ==
    IF Failed(c) THEN c
    ELSE IF checked /\ Cur(c).num_args + 1 > U8Max THEN Fail(c, "MaxNumberOfArgsExceeded")
    ELSE [c EXCEPT !.states[c.state].num_args = @ + 1]

RECURSIVE AddArgs(_, _, _)
AddArgs(c, args, i) ==
    IF i > Len(args) \/ Failed(c) THEN c
    ELSE AddArgs(add_arg(add_local(c, args[i]), TRUE), args, i + 1)

\* Compiler::function: the new state, current from here on
enter_state(c, ident, is_anonymous) ==
    [c EXCEPT !.states =
                Append([c.states EXCEPT ![c.state].defined_states = Append(@, Len(c.states) + 1)],
                       CompilerState(ident, is_anonymous, Cur(c).depth, c.state)),
              !.state = Len(c.states) + 1]

\* Compiler::function: back to the parent state
leave_state(c) == IF Failed(c) THEN c ELSE [c EXCEPT !.state = Cur(c).parent]

\* Compiler::function
function(c, ident, args, expression, is_anonymous) ==
    IF Failed(c) THEN c
    ELSE emit_code(
            leave_state(
                emit_code(
                    end_scope(
                        Expression(
                            IF args = <<>>
                            THEN add_arg(add_local(add_local(begin_scope(
                                     enter_state(c, ident, is_anonymous)), ident), ""), FALSE)
                            ELSE AddArgs(add_local(begin_scope(
                                     enter_state(c, ident, is_anonymous)), ident), args, 1),
                            expression)),
                    Op("Return", 0))),
            Op("Closure", Len(Cur(c).defined_states) % (U8Max + 1)))

\* Expression::Path once the name is looked up: r of resolve_name
path(c, x, r) ==
    IF r.found THEN PathParts(emit_code(r.c, r.getter), x.parts, 1, r.getter)
    ELSE IF resolve_module_alias(c, x.ident) >= 0
    THEN PathParts(
            emit_code(
                constant(
                    emit_code(c, Op("GetModule",
                        c.module_aliases[resolve_module_alias(c, x.ident) + 1].module_index
                            % (U8Max + 1))),
                    VInt(c.module_aliases[resolve_module_alias(c, x.ident) + 1].local_index)),
                Op("GetTable", 0)),
            x.parts, 1, NoOp)
    ELSE IF loader_module(c.module_provider, x.ident) >= 0
    THEN PathParts(
            emit_code(c, Op("GetModule", loader_module(c.module_provider, x.ident) % (U8Max + 1))),
            x.parts, 1,
            Op("GetModule", loader_module(c.module_provider, x.ident) % (U8Max + 1)))
    ELSE Fail(c, "NameNotFound")

\* Expression::If after the else jump is emitted at else_location: patch the
\* first jump, compile the else branch, patch the second
if_else(c, x, then_location) ==
    patch_jump(
        IF x.else.e # "none"
        THEN Expression(patch_jump(emit_jump(c, "Jump"), then_location), x.else)
        ELSE emit_code(patch_jump(emit_jump(c, "Jump"), then_location), Op("LoadUnit", 0)),
        Len(Cur(c).code))

\* Expression::If after the condition: the first jump at then_location, the block
if_block(c, x) ==
    if_else(Expression(emit_jump(c, "JumpIfFalse"), x.block), x, Len(Cur(c).code))

\* Compiler::expression
Expression(c, x) ==
    IF Failed(c) THEN c
    ELSE CASE x.e = "unary" ->
                emit_code(Expression(c, x.operand), Op(x.operation, 0))
           [] x.e = "op" ->
                IF x.operation = "Assignment" THEN assignment(c, x.lhs, x.rhs)
                ELSE emit_code(Expression(Expression(c, x.lhs), x.rhs),
                               Op(ComparisonOp(x.operation), 0))
           [] x.e = "array" ->
                IF Len(x.items) > U8Max THEN Fail(c, "ListInitializerTooLong")
                ELSE emit_code(ExprsFrom(c, x.items, 1), Op("CreateList", Len(x.items)))
           [] x.e = "unit" -> constant(c, VUnit)
           [] x.e = "bool" -> constant(c, VBool(x.b))
           [] x.e = "int" -> constant(c, VInt(x.n))
           [] x.e = "string" -> constant(c, VString(x.s))
           [] x.e = "block" -> end_scope(BlockFrom(begin_scope(c), x.stmts, 1))
           [] x.e = "path" -> path(c, x, resolve_name(c, x.ident))
           [] x.e = "call" ->
                IF Len(x.args) > U8Max THEN Fail(Expression(c, x.callee), "MaxNumberOfArgsExceeded")
                ELSE emit_code(ExprsFrom(Expression(c, x.callee), x.args, 1),
                               Op("Call", Len(x.args)))
           [] x.e = "fn" -> function(c, "<anonymous>", x.args, x.expr, TRUE)
           [] x.e = "if" -> if_block(Expression(c, x.condition), x)

\* Compiler::module_statement: the name joins module_locals after its code
module_declare(c, ident) ==
    IF Failed(c) THEN c ELSE [c EXCEPT !.module_locals = Append(@, ident)]

\* ModuleLoader::load_module compiles the file it reads through
\* Compiler::compile_module, which loads the files that file imports
RECURSIVE loader_load_module(_, _)

RECURSIVE AliasesFrom(_, _, _)
AliasesFrom(locals, module_index, i) ==
    IF i > Len(locals) THEN <<>>
    ELSE << [ident |-> locals[i], module_index |-> module_index, local_index |-> i - 1] >>
         \o AliasesFrom(locals, module_index, i + 1)

\* Statement::Import of module_statement once load_module returned r: the
\* unwraps of load_module end the host, otherwise every local of the loaded
\* module becomes an alias
module_import(c, r) ==
    IF r.err # "" THEN Fail(c, "panic")
    ELSE [c EXCEPT !.module_provider = r.loader,
                   !.module_aliases = @ \o AliasesFrom(r.loader[r.index + 1].locals, r.index, 1)]

module_statement(c, st) ==
    IF Failed(c) THEN c
    ELSE IF st.s = "import" THEN module_import(c, loader_load_module(c.module_provider, st.file))
    ELSE module_declare(
            IF st.s = "let"
            THEN IF st.value.e # "none" THEN Expression(c, st.value)
                 ELSE emit_code(c, Op("LoadUnit", 0))
            ELSE function(c, st.ident, st.args, st.expr, FALSE),
            st.ident)

RECURSIVE DeclareFrom(_, _, _)
DeclareFrom(c, stmts, i) ==
    IF i > Len(stmts) THEN c
    ELSE DeclareFrom(IF stmts[i].s = "import" THEN c ELSE add_local(c, stmts[i].ident),
                     stmts, i + 1)

RECURSIVE ModuleStatementsFrom(_, _, _)
ModuleStatementsFrom(c, stmts, i) ==
    IF i > Len(stmts) THEN c
    ELSE ModuleStatementsFrom(module_statement(c, stmts[i]), stmts, i + 1)

\* Module::new over the compiled states (build_prototype keeps the tree as `states`)
build_module(c, ident) ==
    [ident |-> ident, locals |-> c.module_locals, native |-> FALSE,
     states |-> c.states, err |-> c.err]

\* Compiler::compile_module on the statements Parser::parse yields, up to the
\* compiler it leaves behind (its module_provider is the borrowed loader)
compile_statements(loader, stmts) ==
    ModuleStatementsFrom(
        DeclareFrom(module_declare(add_local(Compiler(loader), "<main>"), "<main>"),
                    stmts, 1),
        stmts, 1)

compile_module(loader, ident, stmts) ==
    build_module(compile_statements(loader, stmts), ident)

(***************************************************************************)
(* Module loader (src/src/state.rs) and the native modules of              *)
(* src/src/stdlib/mod.rs                                                   *)
(***************************************************************************)
NativeModule(ident, locals) ==
    [ident |-> ident, locals |-> locals, native |-> TRUE, states |-> <<>>, err |-> ""]

IoModule == NativeModule("Io", <<"print", "printf", "open_file", "read_file">>)
IterModule == NativeModule("Iter", <<"new", "map", "filter", "for_each">>)
StringModule == NativeModule("String", <<"from_format">>)

\* ModuleLoader::new
loader_new == <<IoModule>>

\* stdlib::modules
stdlib_modules == <<IoModule, IterModule, StringModule>>

\* Vm::new_with_std: ModuleLoader::new then add_modules(stdlib::modules())
new_with_std == <<IoModule, IoModule, IterModule, StringModule>>

\* ModuleLoader::add_module
add_module(loader, m) == Append(loader, m)

RECURSIVE add_modules(_, _)
add_modules(loader, ms) ==
    IF ms = <<>> THEN loader ELSE add_modules(add_module(loader, Head(ms)), Tail(ms))

\* ModuleLoader::module_at, <<>> is None
module_at(loader, index) == IF index < Len(loader) THEN << loader[index + 1] >> ELSE <<>>

\* the tail of load_module_from_source and load_module: index is the length
\* of the loader the compiler leaves behind, and the module is pushed there
register(c, ident) ==
    IF Failed(c) THEN [loader |-> c.module_provider, err |-> c.err, index |-> -1]
    ELSE [loader |-> add_module(c.module_provider, build_module(c, ident)), err |-> "",
          index |-> Len(c.module_provider)]

\* ModuleLoader::load_module_from_source: a failed compilation returns before
\* the push
load_module_from_source_index_first(loader, ident, stmts) ==
    [register(compile_statements(loader, stmts), ident) EXCEPT !.index = Len(loader)]

load_module_from_source(loader, ident, stmts) ==
    register(compile_statements(loader, stmts), ident)

\* the files under the loader's root
Files ==
    [lib |-> << Let("x", IntLit(1)) >>,
     mid |-> << Import("lib"), Let("y", IntLit(2)) >>,
     top |-> << Import("mid"), Import("lib"), Let("z", Name("y")) >>,
     bad |-> << Import("lib"), Let("w", Name("nowhere")) >>]

\* ModuleLoader::load_module: canonicalize, read_to_string and compile_module
\* are unwrapped, so a missing file or a failed compilation ends the host
loader_load_module(loader, file) ==
    IF file \notin DOMAIN Files THEN [loader |-> loader, err |-> "panic", index |-> -1]
    ELSE register(compile_statements(loader, Files[file]), file)

(***************************************************************************)
(* Programs.  A program is the sequence of module sources a host loads     *)
(* with Vm::load_from_source before it executes `main` of the last one.    *)
(***************************************************************************)
Source(ident, stmts) == [ident |-> ident, stmts |-> stmts]

Unit1 == <<UnitLit>>

RECURSIVE Repeat(_, _)
Repeat(x, n) == IF n = 0 THEN <<>> ELSE <<x>> \o Repeat(x, n - 1)

\* fn -> n = n + 1
Increment == Fn(<<>>, Block(<<ExprStmt(Assign(Name("n"), Operation("Add", Name("n"), IntLit(1))))>>))

\* let make () =            let main () =
\*     let n = 0                let c = make ()
\*     fn -> n = n + 1          c ()            (k times)
CounterProgram(k) ==
    << Source("counter",
        << FunctionStmt("make", <<>>, Block(<<Let("n", IntLit(0)), ExprStmt(Increment)>>)),
           FunctionStmt("main", <<>>,
              Block(<<Let("c", CallOf(Name("make"), Unit1))>>
                    \o Repeat(ExprStmt(CallOf(Name("c"), Unit1)), k))) >>) >>

\* let main () = if <c> then 1 else 2          (else 2 left out when el is none)
IfProgram(c, el) ==
    << Source("cond",
        << FunctionStmt("main", <<>>,
              Block(<<ExprStmt(If(c, Block(<<ExprStmt(IntLit(1))>>), el))>>)) >>) >>

Else2 == Block(<<ExprStmt(IntLit(2))>>)

\* a function nested d levels below `outer`, the owner of x, reads x:
\* let outer () =                 let main () =
\*     let x = 1                      let f1 = outer ()
\*     fn -> fn -> ... x              let f2 = f1 ()  ...  fd ()
RECURSIVE Nested(_)
Nested(d) == IF d = 0 THEN Name("x") ELSE Fn(<<>>, Block(<<ExprStmt(Nested(d - 1))>>))

NestLocal(i) == IF i = 1 THEN "f1" ELSE IF i = 2 THEN "f2" ELSE IF i = 3 THEN "f3" ELSE "f4"

RECURSIVE Unnest(_, _)
Unnest(i, d) ==
    IF i > d THEN <<>>
    ELSE <<Let(NestLocal(i + 1), CallOf(Name(NestLocal(i)), Unit1))>> \o Unnest(i + 1, d)

NestProgram(d) ==
    << Source("nest",
        << FunctionStmt("outer", <<>>, Block(<<Let("x", IntLit(1)), ExprStmt(Nested(d))>>)),
           FunctionStmt("main", <<>>,
              Block(<<Let("f1", CallOf(Name("outer"), Unit1))>> \o Unnest(1, d - 1)
                    \o <<ExprStmt(CallOf(Name(NestLocal(d)), Unit1))>>)) >>) >>

\* let pair () =                        let main () =
\*     let a = 1                            let p = pair ()
\*     let b = 2                            p[0] ()
\*     let set = fn -> b = b + a            p[1] ()
\*     let get = fn -> b
\*     [set, get]
ShareProgram ==
    << Source("share",
        << FunctionStmt("pair", <<>>,
              Block(<< Let("a", IntLit(1)), Let("b", IntLit(2)),
                       Let("set", Fn(<<>>, Block(<<ExprStmt(
                            Assign(Name("b"), Operation("Add", Name("b"), Name("a"))))>>))),
                       Let("get", Fn(<<>>, Block(<<ExprStmt(Name("b"))>>))),
                       ExprStmt(ArrayOf(<<Name("set"), Name("get")>>)) >>)),
           FunctionStmt("main", <<>>,
              Block(<< Let("p", CallOf(Name("pair"), Unit1)),
                       ExprStmt(CallOf(PathOf("p", <<PartIndex(IntLit(0))>>), Unit1)),
                       ExprStmt(CallOf(PathOf("p", <<PartIndex(IntLit(1))>>), Unit1)) >>)) >>) >>

\* let five () = 5          let main () =
\*                              five ()
\*                              let x = 7
\*                              x
LetAfterCallProgram ==
    << Source("locals",
        << FunctionStmt("five", <<>>, Block(<<ExprStmt(IntLit(5))>>)),
           FunctionStmt("main", <<>>,
              Block(<< ExprStmt(CallOf(Name("five"), Unit1)),
                       Let("x", IntLit(7)),
                       ExprStmt(Name("x")) >>)) >>) >>

\* let main () =
\*     let a = 1
\*     a = 4
\*     let b = 2
\*     b
LetAfterAssignProgram ==
    << Source("locals",
        << FunctionStmt("main", <<>>,
              Block(<< Let("a", IntLit(1)),
                       ExprStmt(Assign(Name("a"), IntLit(4))),
                       Let("b", IntLit(2)),
                       ExprStmt(Name("b")) >>)) >>) >>

\* let main () =
\*     let r = if true then
\*         let t = 3
\*         t
\*     let y = 9
\*     y
LetAfterBlockProgram ==
    << Source("locals",
        << FunctionStmt("main", <<>>,
              Block(<< Let("r", If(BoolLit(TRUE),
                                   Block(<<Let("t", IntLit(3)), ExprStmt(Name("t"))>>),
                                   NoExpr)),
                       Let("y", IntLit(9)),
                       ExprStmt(Name("y")) >>)) >>) >>

\* let main () =
\*     let a = 7
\*     Iter.map [1, ..., n] (fn x -> x * x)
RECURSIVE Ints(_)
Ints(n) == IF n = 0 THEN <<>> ELSE Ints(n - 1) \o <<IntLit(n)>>

MapProgram(n) ==
    << Source("map",
        << FunctionStmt("main", <<>>,
              Block(<< Let("a", IntLit(7)),
                       ExprStmt(CallOf(PathOf("Iter", <<PartIdent("map")>>),
                           << ArrayOf(Ints(n)),
                              Fn(<<"x">>, Block(<<ExprStmt(
                                  Operation("Multiply", Name("x"), Name("x")))>>)) >>)) >>)) >>) >>

\* let main () =
\*     Io.print 1 2
\*     0
\*     3
PrintProgram ==
    << Source("print",
        << FunctionStmt("main", <<>>,
              Block(<< ExprStmt(CallOf(PathOf("Io", <<PartIdent("print")>>),
                                       <<IntLit(1), IntLit(2)>>)),
                       ExprStmt(IntLit(0)),
                       ExprStmt(IntLit(3)) >>)) >>) >>

\* module lib:                  module app:
\* let x = 5                    let main () =
\* let get () = x                   let g = lib.get
\*                                  g ()
ModuleProgram ==
    << Source("lib",
        << Let("x", IntLit(5)),
           FunctionStmt("get", <<>>, Block(<<ExprStmt(Name("x"))>>)) >>),
       Source("app",
        << FunctionStmt("main", <<>>,
              Block(<< Let("g", PathOf("lib", <<PartIdent("get")>>)),
                       ExprStmt(CallOf(Name("g"), Unit1)) >>)) >>) >>

\* let sq x = x * x         let main () =
\*                              let a = 7
\*                              let m = Iter.map [1] sq
\*                              let n = Iter.map [1] sq
\*                              let k = fn -> n + a
\*                              sq 1
MapThenCaptureProgram ==
    << Source("capture",
        << FunctionStmt("sq", <<"x">>, Block(<<ExprStmt(
                Operation("Multiply", Name("x"), Name("x")))>>)),
           FunctionStmt("main", <<>>,
              Block(<< Let("a", IntLit(7)),
                       Let("m", CallOf(PathOf("Iter", <<PartIdent("map")>>),
                                       <<ArrayOf(Ints(1)), Name("sq")>>)),
                       Let("n", CallOf(PathOf("Iter", <<PartIdent("map")>>),
                                       <<ArrayOf(Ints(1)), Name("sq")>>)),
                       Let("k", Fn(<<>>, Block(<<ExprStmt(
                            Operation("Add", Name("n"), Name("a")))>>))),
                       ExprStmt(CallOf(Name("sq"), <<IntLit(1)>>)) >>)) >>) >>

\* [Iter.map [1] sq] as a statement
MapInList ==
    ExprStmt(ArrayOf(<<CallOf(PathOf("Iter", <<PartIdent("map")>>),
                              <<ArrayOf(Ints(1)), Name("sq")>>)>>))

\* let sq x = x * x         let drop () =                let main () =
\*                              [Iter.map [1] sq]            let a = 7
\*                              [Iter.map [1] sq]            drop ()
\*                              [Iter.map [1] sq]
\*                              3
MapInListProgram ==
    << Source("drop",
        << FunctionStmt("sq", <<"x">>, Block(<<ExprStmt(
                Operation("Multiply", Name("x"), Name("x")))>>)),
           FunctionStmt("drop", <<>>,
              Block(<<MapInList, MapInList, MapInList, ExprStmt(IntLit(3))>>)),
           FunctionStmt("main", <<>>,
              Block(<< Let("a", IntLit(7)),
                       ExprStmt(CallOf(Name("drop"), Unit1)) >>)) >>) >>

\* let two x y = x         let main () = two 1
ArityProgram ==
    << Source("arity",
        << FunctionStmt("two", <<"x", "y">>, Block(<<ExprStmt(Name("x"))>>)),
           FunctionStmt("main", <<>>,
              Block(<< Let("a", IntLit(7)),
                       ExprStmt(CallOf(Name("two"), <<IntLit(1)>>)) >>)) >>) >>

\* let two x y = x         let main () = Iter.map [1] two
MapArityProgram ==
    << Source("arity",
        << FunctionStmt("two", <<"x", "y">>, Block(<<ExprStmt(Name("x"))>>)),
           FunctionStmt("main", <<>>,
              Block(<< ExprStmt(CallOf(PathOf("Iter", <<PartIdent("map")>>),
                                       <<ArrayOf(Ints(1)), Name("two")>>)) >>)) >>) >>

\* let forever () = forever ()         let main () = forever ()
RecurseProgram ==
    << Source("recurse",
        << FunctionStmt("forever", <<>>, Block(<<ExprStmt(CallOf(Name("forever"), Unit1))>>)),
           FunctionStmt("main", <<>>,
              Block(<<ExprStmt(CallOf(Name("forever"), Unit1))>>)) >>) >>

\* let main () =
\*     let n = 5
\*     let k = fn -> n
\*     1 + "a"                  (or 1 - "a")
ArithmeticProgram(operator) ==
    << Source("arith",
        << FunctionStmt("main", <<>>,
              Block(<< Let("n", IntLit(5)),
                       Let("k", Fn(<<>>, Block(<<ExprStmt(Name("n"))>>))),
                       ExprStmt(Operation(operator, IntLit(1), StrLit(1))) >>)) >>) >>

\* let main () = <n>
LiteralProgram(n) ==
    << Source("literal",
        << FunctionStmt("main", <<>>, Block(<<ExprStmt(IntLit(n))>>)) >>) >>

Literals == <<0, 1, 255, 256, 300>>

\* two modules whose `main` is the same local:   let main () = 1   and
\* let main () = 2
TwoMainsProgram ==
    << Source("one", << FunctionStmt("main", <<>>, Block(<<ExprStmt(IntLit(1))>>)) >>),
       Source("two", << FunctionStmt("main", <<>>, Block(<<ExprStmt(IntLit(2))>>)) >>) >>

\* let a = if true then 1 else 2
\* let b = 5
\* let main () = b
TopLevelIfProgram ==
    << Source("top",
        << Let("a", If(BoolLit(TRUE), Block(<<ExprStmt(IntLit(1))>>), Else2)),
           Let("b", IntLit(5)),
           FunctionStmt("main", <<>>, Block(<<ExprStmt(Name("b"))>>)) >>) >>

Conditions == <<BoolLit(TRUE), BoolLit(FALSE), IntLit(0), IntLit(1), UnitLit>>

SumDepth == 8

\* 1 + 1 + ... + 1, the operands paired d levels deep: 2^(d + 1) - 1 opcodes
RECURSIVE Sum(_)
Sum(d) == IF d = 0 THEN IntLit(1) ELSE Operation("Add", Sum(d - 1), Sum(d - 1))

\* let main () =
\*     let r = if false then 1 + 1 + ... + 1 else 2
\*     r
LongIfProgram ==
    << Source("long",
        << FunctionStmt("main", <<>>,
              Block(<< Let("r", If(BoolLit(FALSE), Block(<<ExprStmt(Sum(SumDepth))>>), Else2)),
                       ExprStmt(Name("r")) >>)) >>) >>

Programs ==
    [k \in 1..MaxCalls |-> CounterProgram(k)]
    \o [i \in 1..Len(Conditions) |-> IfProgram(Conditions[i], Else2)]
    \o [i \in 1..Len(Conditions) |-> IfProgram(Conditions[i], NoExpr)]
    \o [d \in 1..MaxNest |-> NestProgram(d)]
    \o [n \in 1..(MaxArr + 1) |-> MapProgram(n - 1)]
    \o << ShareProgram, LetAfterCallProgram, LetAfterAssignProgram, LetAfterBlockProgram,
          PrintProgram, ModuleProgram, MapThenCaptureProgram,
          MapInListProgram, ArityProgram, MapArityProgram,
          RecurseProgram, ArithmeticProgram("Add"), ArithmeticProgram("Subtract") >>
    \o [i \in 1..Len(Literals) |-> LiteralProgram(Literals[i])]
    \o <<TopLevelIfProgram, TwoMainsProgram, LongIfProgram>>

RECURSIVE LoadFrom(_, _)
LoadFrom(r, sources) ==
    IF sources = <<>> \/ r.err # "" THEN r
    ELSE LoadFrom(load_module_from_source(r.loader, Head(sources).ident, Head(sources).stmts),
                  Tail(sources))

\* the loader of each program after the host has loaded its sources
Loaded == [p \in 1..Len(Programs) |-> LoadFrom([loader |-> new_with_std, err |-> ""], Programs[p])]


(***************************************************************************)
(* The virtual machine (src/src/vm.rs).  Heap objects (upvalue cells,      *)
(* closures, arrays) live in sequences and are named by their position.    *)
(* kont is the chain of Rust activations waiting for a nested Vm::run to   *)
(* return, innermost first.                                                *)
(***************************************************************************)
\* object is a value the host works on outside a run (the constant pool of a
\* prototype being compiled) and outcome what the last operation on it returned
VARIABLES prog, module_loader, frames, stack, open_upvalues, cells, closures, arrays, kont,
          mode, status, last, object, outcome, entry

vars ==
    <<prog, module_loader, frames, stack, open_upvalues, cells, closures, arrays, kont,
      mode, status, last, object, outcome, entry>>

Machine ==
    [ frames |-> frames, stack |-> stack, open_upvalues |-> open_upvalues, cells |-> cells,
      closures |-> closures, arrays |-> arrays, kont |-> kont, mode |-> mode, status |-> status ]

Loader == module_loader

CallFrame(closure, ip, slot_offset) == [closure |-> closure, ip |-> ip, slot_offset |-> slot_offset]

Open(slot) == [open |-> TRUE, slot |-> slot, value |-> VUnit]

Closed(value) == [open |-> FALSE, slot |-> 0, value |-> value]

from_prototype(module, state) ==
    [native |-> FALSE, module |-> module, fn |-> state, upvalues |-> <<>>]

from_native(module, export) ==
    [native |-> TRUE, module |-> module, fn |-> export, upvalues |-> <<>>]

\* the closures a native module holds for its exports, for every native module of the loader
RECURSIVE NativeClosures(_, _)
NativeClosures(loader, i) ==
    IF i > Len(loader) THEN <<>>
    ELSE (IF loader[i].native
          THEN [e \in 1..Len(loader[i].locals) |-> from_native(i - 1, e - 1)]
          ELSE <<>>) \o NativeClosures(loader, i + 1)

RECURSIVE ClosurePosition(_, _, _)
ClosurePosition(heap, closure, i) ==
    IF i > Len(heap) THEN 0
    ELSE IF heap[i] = closure THEN i
    ELSE ClosurePosition(heap, closure, i + 1)

Kont(k, key, fn, arr, i, results) ==
    [k |-> k, key |-> key, fn |-> fn, arr |-> arr, i |-> i, results |-> results]

Waiting(k) == Kont(k, 0, 0, 0, 0, <<>>)

Panic(m) == [m EXCEPT !.status = "panic"]

Error(m, e) == [m EXCEPT !.status = e]

frame(m) == m.frames[Len(m.frames)]

top(m) == Len(m.stack) - frame(m).slot_offset

push(m, value) == [m EXCEPT !.stack = Append(@, value)]

pop(m) == [m EXCEPT !.stack = SubSeq(@, 1, Len(@) - 1)]

Last(m) == m.stack[Len(m.stack)]

truncate(m, len) == [m EXCEPT !.stack = SubSeq(@, 1, IF len < Len(@) THEN len ELSE Len(@))]

prototype(m, closure) ==
    Loader[m.closures[closure].module + 1].states[m.closures[closure].fn]

Code(m) == prototype(m, frame(m).closure).code

\* run: self.frame_mut().ip += 1
Advance(m) == [m EXCEPT !.frames[Len(m.frames)].ip = @ + 1]

\* run returned Ok to the activation that started it; the loop of a Call
\* opcode goes on at once, any other activation resumes in its own step
Returned(m) ==
    IF Head(m.kont).k = "run" THEN [m EXCEPT !.kont = Tail(@)]
    ELSE [m EXCEPT !.mode = "ret"]

RECURSIVE FindOpen(_, _, _)
FindOpen(m, index, i) ==
    IF i < 1 THEN 0
    ELSE LET upvalue == m.cells[m.open_upvalues[i]]
         IN  IF upvalue.open /\ upvalue.slot <= index
             THEN (IF upvalue.slot = index THEN m.open_upvalues[i] ELSE 0)
             ELSE FindOpen(m, index, i - 1)

capture_upvalue(m, index) ==
    LET found == FindOpen(m, index, Len(m.open_upvalues))
        new_upvalue == Len(m.cells) + 1
    IN  IF found > 0 THEN [m |-> m, upvalue |-> found]
        ELSE [m |-> [m EXCEPT !.cells = Append(@, Open(index)),
                              !.open_upvalues = Append(@, new_upvalue)],
              upvalue |-> new_upvalue]

RECURSIVE CloseLoop(_, _, _)
CloseLoop(m, last_slot, i) ==
    IF i < 1 THEN [m EXCEPT !.open_upvalues = <<>>]
    ELSE LET upvalue == m.open_upvalues[i]
         IN  IF ~m.cells[upvalue].open THEN Panic(m)
             ELSE IF m.cells[upvalue].slot < last_slot
             THEN [m EXCEPT !.open_upvalues = SubSeq(@, 1, i)]
             ELSE IF m.cells[upvalue].slot >= Len(m.stack) THEN Panic(m)
             ELSE CloseLoop([m EXCEPT !.cells[upvalue] = Closed(m.stack[m.cells[upvalue].slot + 1])],
                            last_slot, i - 1)

close_upvalues(m, last_slot) == CloseLoop(m, last_slot, Len(m.open_upvalues))

\* a call that checks the argument count after it has pushed the frame
call_frame_first(m, closure, num_args, waiting) ==
    IF m.closures[closure].native \/ Len(m.stack) < num_args + 1 THEN Panic(m)
    ELSE IF prototype(m, closure).num_args # num_args
    THEN Error([m EXCEPT !.frames = Append(@, CallFrame(closure, 0, Len(m.stack) - num_args - 1))],
               "IncorrectNumberOfArguments")
    ELSE IF Len(m.frames) = UsizeMax THEN Error(m, "StackOverflow")
    ELSE IF Len(m.frames) >= HostDepth THEN Error(m, "HostStackExhausted")
    ELSE [m EXCEPT !.frames = Append(@, CallFrame(closure, 0, Len(m.stack) - num_args - 1)),
                   !.kont = <<waiting>> \o @,
                   !.mode = "run"]

call(m, closure, num_args, waiting) ==
    IF m.closures[closure].native THEN Panic(m)
    ELSE IF prototype(m, closure).num_args # num_args THEN Error(m, "IncorrectNumberOfArguments")
    ELSE IF Len(m.frames) = UsizeMax THEN Error(m, "StackOverflow")
    ELSE IF Len(m.stack) < num_args + 1 THEN Panic(m)
    ELSE IF Len(m.frames) >= HostDepth THEN Error(m, "HostStackExhausted")
    ELSE [m EXCEPT !.frames = Append(@, CallFrame(closure, 0, Len(m.stack) - num_args - 1)),
                   !.kont = <<waiting>> \o @,
                   !.mode = "run"]


\* CallNative epilogue: the lines of call_native after the native function returned Ok(result)
native_return(m, result) ==
    LET popped == frame(m)
        m1 == [m EXCEPT !.frames = SubSeq(@, 1, Len(@) - 1)]
    IN  IF Len(m1.stack) = 0 THEN Panic(m1)
        ELSE IF Len(m1.frames) = 0 THEN pop(m1)
        ELSE push(truncate(pop(m1), popped.slot_offset), result)

\* stdlib/io.rs print: pops the arguments, leaves the callee
io_print(m) ==
    LET num_args == top(m)
        n == IF num_args > 1 THEN num_args - 1 ELSE 0
    IN  IF Len(m.stack) < n THEN Panic(m)
        ELSE native_return([m EXCEPT !.stack = SubSeq(@, 1, Len(@) - n)], VUnit)

\* stdlib/iter.rs map, array arm: one turn of `for v in value.iter()`
map_loop(m, callee, array, i, results) ==
    IF i > Len(m.arrays[array])
    THEN native_return([m EXCEPT !.arrays = Append(@, results)], VArray(Len(m.arrays) + 1))
    ELSE call(push(push(m, VClosure(callee)), m.arrays[array][i]), callee, 1,
              Kont("map", 0, callee, array, i, results))

iter_map(m) ==
    IF top(m) - 1 # 2 THEN Error(m, "IncorrectNumberOfArguments")
    ELSE IF Len(m.stack) < 3 \/ Last(m).t # "closure" THEN Panic(m)
    ELSE LET callee == Last(m)
             value == m.stack[Len(m.stack) - 1]
             m1 == pop(pop(pop(m)))
         IN  IF value.t = "array" THEN map_loop(m1, callee.v, value.v, 1, <<>>)
             ELSE Error(m1, "UnexpectedType")

NativeName(m, closure) ==
    LET module == Loader[m.closures[closure].module + 1]
    IN  <<module.ident, module.locals[m.closures[closure].fn + 1]>>

\* call_native: the frame pushed before the host function is invoked
native_frame(m, closure, num_args) ==
    [m EXCEPT !.frames = Append(@, CallFrame(closure, 0, Len(m.stack) - num_args - 1))]

call_native(m, closure, num_args) ==
    IF Len(m.frames) = UsizeMax THEN Error(m, "StackOverflow")
    ELSE IF Len(m.stack) < num_args + 1 THEN Panic(m)
    ELSE LET m1 == native_frame(m, closure, num_args)
         IN  CASE NativeName(m, closure) = <<"Io", "print">> -> io_print(m1)
               [] NativeName(m, closure) = <<"Iter", "map">> -> iter_map(m1)
               [] OTHER -> Error(m1, "NativeNotModelled")

(***************************************************************************)
(* What each opcode of Vm::run does to the machine, ip already advanced.   *)
(***************************************************************************)
LoadConst(m, index) ==
    IF index >= Len(prototype(m, frame(m).closure).constants) THEN Panic(m)
    ELSE push(m, prototype(m, frame(m).closure).constants[index + 1])

GetLocal(m, slot) ==
    LET offset == frame(m).slot_offset
    IN  IF offset + slot >= Len(m.stack) THEN Panic(m)
        ELSE push(m, m.stack[offset + slot + 1])

GetUpvalue(m, index) ==
    LET upvalues == m.closures[frame(m).closure].upvalues
    IN  IF index >= Len(upvalues) THEN Panic(m)
        ELSE LET upvalue == m.cells[upvalues[index + 1]]
             IN  IF ~upvalue.open THEN push(m, upvalue.value)
                 ELSE IF upvalue.slot >= Len(m.stack) THEN Panic(m)
                 ELSE push(m, m.stack[upvalue.slot + 1])

\* the place of key among the entries of a table, in insertion order: 0 is None
entry_of(entries, key) ==
    IF \E i \in 1..Len(entries) : entries[i].key = key
    THEN CHOOSE i \in 1..Len(entries) : entries[i].key = key
    ELSE 0

\* HashMap::insert: the value of a key that is there is replaced
insert(entries, key, value) ==
    IF entry_of(entries, key) > 0 THEN [entries EXCEPT ![entry_of(entries, key)].value = value]
    ELSE Append(entries, [key |-> key, value |-> value])

\* the Value::Table arm of GetTable: table.get(&key).cloned().unwrap_or(Value::Unit)
lookup(m, table, key) ==
    IF entry_of(m.tables[table.v], key) > 0
    THEN push(m, m.tables[table.v][entry_of(m.tables[table.v], key)].value)
    ELSE push(m, VUnit)

GetModule(m, index) ==
    IF index >= Len(Loader) THEN Panic(m) ELSE push(m, VModule(index))

\* the activation that waits for the run of a compiled module remembers, in fn,
\* arr and i, the numbers of cells, of stack values and of frames GetTable
\* started with
GetTable(m) ==
    IF Len(m.stack) < 2 THEN Panic(m)
    ELSE LET key == Last(m)
             table == m.stack[Len(m.stack) - 1]
             m1 == pop(pop(m))
         IN  CASE table.t = "table" -> lookup(m1, table, key)
               [] table.t = "array" ->
                    IF key.t # "int" THEN Panic(m1)
                    ELSE IF key.v < 0 \/ key.v >= Len(m1.arrays[table.v]) THEN Panic(m1)
                    ELSE push(m1, m1.arrays[table.v][key.v + 1])
               [] table.t = "module" ->
                    IF key.t # "int" THEN Panic(m1)
                    ELSE IF Loader[table.v + 1].native
                    THEN (IF key.v < 0 \/ key.v >= Len(Loader[table.v + 1].locals) THEN Panic(m1)
                          ELSE push(m1, VClosure(ClosurePosition(m1.closures,
                                                    from_native(table.v, key.v), 1))))
                    ELSE LET closure == Len(m1.closures) + 1
                             m2 == [m1 EXCEPT !.closures = Append(@, from_prototype(table.v, 1))]
                         IN  call(push(m2, VClosure(closure)), closure, 0,
                                  Kont("module", key.v, Len(m.cells), Len(m.stack),
                                       Len(m.frames), <<>>))
               [] OTHER -> Panic(m1)

\* a module arm that leaves the sub-frame on the frame stack
module_value_keeping_frame(m, integer) ==
    LET slot_offset == frame(m).slot_offset
    IN  IF integer < 0 \/ slot_offset + integer >= Len(m.stack) THEN Panic(m)
        ELSE LET value == m.stack[slot_offset + integer + 1]
                 m1 == close_upvalues(m, slot_offset)
             IN  IF m1.status # "run" THEN m1
                 ELSE push(truncate(m1, slot_offset), value)

\* GetTable, module arm: the lines after self.call(closure, 0)? returned
module_value(m, integer) ==
    LET slot_offset == frame(m).slot_offset
    IN  IF integer < 0 \/ slot_offset + integer >= Len(m.stack) THEN Panic(m)
        ELSE LET value == m.stack[slot_offset + integer + 1]
                 m1 == close_upvalues(m, slot_offset)
             IN  IF m1.status # "run" THEN m1
                 ELSE push(truncate([m1 EXCEPT !.frames = SubSeq(@, 1, Len(@) - 1)],
                                    slot_offset), value)

SetLocal(m, slot) ==
    LET offset == frame(m).slot_offset
    IN  IF Len(m.stack) = 0 \/ offset + slot >= Len(m.stack) THEN Panic(m)
        ELSE [m EXCEPT !.stack[offset + slot + 1] = Last(m)]

SetUpvalue(m, index) ==
    IF Len(m.stack) = 0 THEN Panic(m)
    ELSE LET value == Last(m)
             m1 == pop(m)
             upvalues == m.closures[frame(m).closure].upvalues
         IN  IF index >= Len(upvalues) THEN Panic(m1)
             ELSE LET upvalue == upvalues[index + 1]
                  IN  IF ~m1.cells[upvalue].open
                      THEN [m1 EXCEPT !.cells[upvalue] = Closed(value)]
                      ELSE IF m1.cells[upvalue].slot >= Len(m1.stack) THEN Panic(m1)
                      ELSE [m1 EXCEPT !.stack[m1.cells[upvalue].slot + 1] = value]

CreateList(m, size) ==
    IF Len(m.stack) < size THEN Panic(m)
    ELSE LET array == SubSeq(m.stack, Len(m.stack) - size + 1, Len(m.stack))
         IN  push([m EXCEPT !.stack = SubSeq(@, 1, Len(@) - size),
                            !.arrays = Append(@, array)],
                  VArray(Len(m.arrays) + 1))


RECURSIVE CaptureFrom(_, _, _, _)
CaptureFrom(m, descriptors, i, captured) ==
    IF i > Len(descriptors) THEN [m |-> m, upvalues |-> captured]
    ELSE IF descriptors[i].is_local
    THEN LET r == capture_upvalue(m, frame(m).slot_offset + descriptors[i].index)
         IN  CaptureFrom(r.m, descriptors, i + 1, Append(captured, r.upvalue))
    ELSE LET enclosing == m.closures[frame(m).closure].upvalues
         IN  IF descriptors[i].index >= Len(enclosing)
             THEN [m |-> Panic(m), upvalues |-> captured]
             ELSE CaptureFrom(m, descriptors, i + 1,
                              Append(captured, enclosing[descriptors[i].index + 1]))

Closure(m, index) ==
    LET parent == m.closures[frame(m).closure]
        prototypes == prototype(m, frame(m).closure).defined_states
    IN  IF index >= Len(prototypes) THEN Panic(m)
        ELSE LET state == prototypes[index + 1]
                 r == CaptureFrom(m, Loader[parent.module + 1].states[state].upvalues, 1, <<>>)
                 closure == [from_prototype(parent.module, state) EXCEPT !.upvalues = r.upvalues]
             IN  IF r.m.status # "run" THEN r.m
                 ELSE push([r.m EXCEPT !.closures = Append(@, closure)],
                           VClosure(Len(r.m.closures) + 1))

\* Add, Subtract and Multiply on two integers; any other pair of operands panics
Arithmetic(m, name) ==
    IF Len(m.stack) < 2 THEN Panic(m)
    ELSE LET rhs == Last(m)
             lhs == m.stack[Len(m.stack) - 1]
             m1 == pop(pop(m))
         IN  IF lhs.t # "int" \/ rhs.t # "int" THEN Panic(m1)
             ELSE push(m1, VInt(CASE name = "Add" -> lhs.v + rhs.v
                                  [] name = "Subtract" -> lhs.v - rhs.v
                                  [] OTHER -> lhs.v * rhs.v))

Abs(n) == IF n < 0 THEN 0 - n ELSE n

\* l / r of two i64 with r # 0: the quotient rounded towards zero
Quotient(l, r) ==
    IF (l < 0) = (r < 0) THEN Abs(l) \div Abs(r) ELSE 0 - (Abs(l) \div Abs(r))

\* l % r of two i64 with r # 0: the remainder with the sign of l
Remainder(l, r) == l - r * Quotient(l, r)

\* Divide, IDivide and Modulus on two integers: `l / r` and `l % r` of two
\* i64 panic when r is 0 ("attempt to divide by zero"), and an operand that
\* is no number reaches todo!()
Division(m, name) ==
    IF Len(m.stack) < 2 THEN Panic(m)
    ELSE LET rhs == Last(m)
             lhs == m.stack[Len(m.stack) - 1]
             m1 == pop(pop(m))
         IN  IF lhs.t # "int" \/ rhs.t # "int" THEN Panic(m1)
             ELSE IF rhs.v = 0 THEN Panic(m1)
             ELSE push(m1, VInt(IF name = "Modulus" THEN Remainder(lhs.v, rhs.v)
                                ELSE Quotient(lhs.v, rhs.v)))

Call(m, num_args) ==
    IF Len(m.stack) < num_args + 1 THEN Panic(m)
    ELSE LET value == m.stack[Len(m.stack) - num_args]
         IN  IF value.t # "closure" THEN Error(m, "CannotCallNonCallableValue")
             ELSE IF m.closures[value.v].native THEN call_native(m, value.v, num_args)
             ELSE call(m, value.v, num_args, Waiting("run"))

JumpIfFalse(m, location) ==
    IF Len(m.stack) = 0 THEN Panic(m)
    ELSE IF is_false(Last(m))
    THEN [pop(m) EXCEPT !.frames[Len(m.frames)].ip = @ + location]
    ELSE pop(m)

Jump(m, location) == [m EXCEPT !.frames[Len(m.frames)].ip = @ + location]

CloseUpvalue(m, index) == close_upvalues(m, frame(m).slot_offset + index)

Pop(m) == IF Len(m.stack) = 0 THEN Panic(m) ELSE pop(m)

Return(m) ==
    IF Len(m.frames) = 1 THEN Returned(m)
    ELSE IF Len(m.stack) = 0 THEN Panic(m)
    ELSE LET result == Last(m)
             m1 == close_upvalues(pop(m), frame(m).slot_offset)
             m2 == [m1 EXCEPT !.frames = SubSeq(@, 1, Len(@) - 1)]
         IN  IF m1.status # "run" THEN m1
             ELSE Returned(push(truncate(m2, frame(m).slot_offset), result))

(***************************************************************************)
(* The state machine.  last records the step just taken: the opcode, the   *)
(* function and position it was fetched from, and the frame, the number of *)
(* frames, the waiting activation and the stack it started with.           *)
(***************************************************************************)
Event(name, a) ==
    [ op |-> name, a |-> a,
      module |-> IF Len(frames) = 0 THEN 0 ELSE closures[frame(Machine).closure].module,
      fn |-> IF Len(frames) = 0 THEN 0 ELSE closures[frame(Machine).closure].fn,
      pc |-> IF Len(frames) = 0 THEN 0 ELSE frame(Machine).ip + 1,
      off |-> IF Len(frames) = 0 THEN 0 ELSE frame(Machine).slot_offset,
      nf |-> Len(frames),
      ctx |-> IF Len(kont) = 0 THEN "" ELSE Head(kont).k,
      stack |-> stack ]

Step(m, event) ==
    /\ frames' = m.frames
    /\ stack' = m.stack
    /\ open_upvalues' = m.open_upvalues
    /\ cells' = m.cells
    /\ closures' = m.closures
    /\ arrays' = m.arrays
    /\ kont' = m.kont
    /\ mode' = m.mode
    /\ status' = m.status
    /\ last' = event
    /\ UNCHANGED <<prog, module_loader, object, outcome>>

\* a step inside the execute_module call the host has made
Commit(m, event) == Step(m, event) /\ UNCHANGED entry

Running == status = "run" /\ mode = "run"

Fetched == Code(Machine)[frame(Machine).ip + 1]

Dispatch(name) ==
    /\ Running
    /\ frame(Machine).ip + 1 <= Len(Code(Machine))
    /\ Fetched.op = name

Init ==
    /\ prog \in 1..Len(Programs)
    /\ module_loader = Loaded[prog].loader
    /\ frames = <<>>
    /\ stack = <<>>
    /\ open_upvalues = <<>>
    /\ cells = <<>>
    /\ closures = NativeClosures(Loaded[prog].loader, 1)
    /\ arrays = <<>>
    /\ kont = <<>>
    /\ mode = "host"
    /\ status = IF Loaded[prog].err = "" THEN "run" ELSE "CompilerError"
    /\ last = [ op |-> "new", a |-> 0, module |-> 0, fn |-> 0, pc |-> 0, off |-> 0,
                nf |-> 0, ctx |-> "", stack |-> <<>> ]
    /\ object = <<>>
    /\ outcome = <<>>
    /\ entry = [index |-> 0, runs |-> 0]


\* Vm::load_module
load_module(m, index, waiting) ==
    IF Loader[index + 1].native THEN Error(m, "CannotLoadNativeModuleAtRuntime")
    ELSE LET closure == Len(m.closures) + 1
             m1 == [m EXCEPT !.closures = Append(@, from_prototype(index, 1))]
         IN  call(push(m1, VClosure(closure)), closure, 0, waiting)

\* Vm::execute_module up to the first run of the module's top level
execute_module(m, index, ident) ==
    IF index >= Len(Loader) THEN Panic(m)
    ELSE LET local == module_local(Loader[index + 1], ident)
         IN  IF local < 0 THEN Panic(m)
             ELSE load_module(m, index, Kont("load_module", local, 0, 0, 0, <<>>))

\* Vm::execute_module after load_module returned: call the entry function
execute_entry(m, index) ==
    IF index >= Len(m.stack) \/ m.stack[index + 1].t # "closure" THEN Panic(m)
    ELSE LET closure == m.stack[index + 1].v
         IN  call(push(push(m, VClosure(closure)), VUnit), closure, 1, Waiting("execute_module"))

\* the host runs `main` of the module it loaded last
ExecuteModule ==
    /\ status = "run" /\ mode = "host"
    /\ Step(execute_module(Machine, Len(Loader) - 1, "main"), Event("execute_module", 0))
    /\ entry' = [index |-> Len(Loader) - 1, runs |-> 1]

\* the host calls execute_module again on the same VM, after a call that
\* returned Ok, for any module index in range
ExecuteModuleAgain ==
    /\ status = "ok" /\ mode = "host"
    /\ entry.runs < MaxRuns
    /\ \E index \in 0..Len(Loader) - 1 :
          /\ Step(execute_module([Machine EXCEPT !.status = "run"], index, "main"),
                  Event("execute_module", 0))
          /\ entry' = [index |-> index, runs |-> entry.runs + 1]

Resumes(k) == status = "run" /\ mode = "ret" /\ Head(kont).k = k

\* load_module: self.run()? after self.call(closure, 0)? returned
LoadModuleRun ==
    /\ Resumes("load_module")
    /\ Commit([Machine EXCEPT !.kont[1].k = "load_module_run", !.mode = "run"],
              Event("load_module", 0))

ExecuteModuleCall ==
    /\ Resumes("load_module_run")
    /\ Commit(execute_entry([Machine EXCEPT !.kont = Tail(@)], Head(kont).key),
              Event("execute_module", 1))

\* execute_module: self.run() after self.call(closure, 1)? returned
ExecuteModuleRun ==
    /\ Resumes("execute_module")
    /\ Commit([Machine EXCEPT !.kont[1].k = "execute_module_run", !.mode = "run"],
              Event("execute_module", 2))

ExecuteModuleReturn ==
    /\ Resumes("execute_module_run")
    /\ Commit([Machine EXCEPT !.kont = Tail(@), !.mode = "host", !.status = "ok"],
              Event("execute_module", 3))

\* run: ip is past the end of the code, the loop breaks
EndOfCode ==
    /\ Running
    /\ frame(Machine).ip + 1 > Len(Code(Machine))
    /\ Commit(Returned(Advance(Machine)), Event("break", 0))

Execute == Event(Fetched.op, Fetched.a)

OpLoadUnit == Dispatch("LoadUnit") /\ Commit(push(Advance(Machine), VUnit), Execute)

OpLoadTrue == Dispatch("LoadTrue") /\ Commit(push(Advance(Machine), VBool(TRUE)), Execute)

OpLoadFalse == Dispatch("LoadFalse") /\ Commit(push(Advance(Machine), VBool(FALSE)), Execute)

OpLoadConst == Dispatch("LoadConst") /\ Commit(LoadConst(Advance(Machine), Fetched.a), Execute)

OpLoadInt == Dispatch("LoadInt") /\ Commit(push(Advance(Machine), VInt(Fetched.a)), Execute)

OpGetLocal == Dispatch("GetLocal") /\ Commit(GetLocal(Advance(Machine), Fetched.a), Execute)

OpGetUpvalue == Dispatch("GetUpvalue") /\ Commit(GetUpvalue(Advance(Machine), Fetched.a), Execute)

OpGetModule == Dispatch("GetModule") /\ Commit(GetModule(Advance(Machine), Fetched.a), Execute)

OpGetTable == Dispatch("GetTable") /\ Commit(GetTable(Advance(Machine)), Execute)

\* GetTable on a compiled module, after the run of its top level returned
GetTableModule ==
    /\ Resumes("module")
    /\ Commit(module_value([Machine EXCEPT !.kont = Tail(@), !.mode = "run"], Head(kont).key),
              Event("GetTableModule", Head(kont).key))

OpSetLocal == Dispatch("SetLocal") /\ Commit(SetLocal(Advance(Machine), Fetched.a), Execute)

OpSetUpvalue == Dispatch("SetUpvalue") /\ Commit(SetUpvalue(Advance(Machine), Fetched.a), Execute)

OpCreateList == Dispatch("CreateList") /\ Commit(CreateList(Advance(Machine), Fetched.a), Execute)

OpClosure == Dispatch("Closure") /\ Commit(Closure(Advance(Machine), Fetched.a), Execute)

OpAdd == Dispatch("Add") /\ Commit(Arithmetic(Advance(Machine), "Add"), Execute)

OpSubtract == Dispatch("Subtract") /\ Commit(Arithmetic(Advance(Machine), "Subtract"), Execute)

OpMultiply == Dispatch("Multiply") /\ Commit(Arithmetic(Advance(Machine), "Multiply"), Execute)

OpCall == Dispatch("Call") /\ Commit(Call(Advance(Machine), Fetched.a), Execute)

\* Iter.map after vm.call(function, 1)? returned: results.push(vm.pop()), next turn
IterMapResume ==
    /\ Resumes("map")
    /\ LET k == Head(kont)
           m == [Machine EXCEPT !.kont = Tail(@), !.mode = "run"]
       IN  Commit(IF Len(stack) = 0 THEN Panic(m)
                  ELSE map_loop(pop(m), k.fn, k.arr, k.i + 1, Append(k.results, Last(m))),
                  Event("map", k.i))

OpJumpIfFalse == Dispatch("JumpIfFalse") /\ Commit(JumpIfFalse(Advance(Machine), Fetched.a), Execute)

OpJump == Dispatch("Jump") /\ Commit(Jump(Advance(Machine), Fetched.a), Execute)

\* the dispatch of ExtraArg is not part of vm.rs: the slot only carries the
\* high byte of the jump before it and executing it changes nothing
OpExtraArg == Dispatch("ExtraArg") /\ Commit(Advance(Machine), Execute)

OpCloseUpvalue == Dispatch("CloseUpvalue") /\ Commit(CloseUpvalue(Advance(Machine), Fetched.a), Execute)

OpPop == Dispatch("Pop") /\ Commit(Pop(Advance(Machine)), Execute)

OpReturn == Dispatch("Return") /\ Commit(Return(Advance(Machine)), Execute)

Next ==
    \/ ExecuteModule
    \/ LoadModuleRun
    \/ ExecuteModuleCall
    \/ ExecuteModuleRun
    \/ ExecuteModuleReturn
    \/ EndOfCode
    \/ OpLoadUnit
    \/ OpLoadTrue
    \/ OpLoadFalse
    \/ OpLoadInt
    \/ OpLoadConst
    \/ OpGetLocal
    \/ OpGetUpvalue
    \/ OpGetModule
    \/ OpGetTable
    \/ GetTableModule
    \/ OpSetLocal
    \/ OpSetUpvalue
    \/ OpCreateList
    \/ OpClosure
    \/ OpAdd
    \/ OpSubtract
    \/ OpMultiply
    \/ OpCall
    \/ IterMapResume
    \/ OpJumpIfFalse
    \/ OpJump
    \/ OpExtraArg
    \/ OpCloseUpvalue
    \/ OpPop
    \/ OpReturn

Spec == Init /\ [][Next]_vars

\* a host that keeps the VM and calls execute_module on it again
RepeatNext == Next \/ ExecuteModuleAgain

RepeatSpec == Init /\ [][RepeatNext]_vars


(***************************************************************************)
(* Properties.                                                             *)
(***************************************************************************)
\* the body of `main` in the source of the module the host executes
MainBody ==
    LET source == Programs[prog][Len(Programs[prog])]
    IN  source.stmts[Len(source.stmts)].expr.stmts

\* the compiled function the last step ran in
LastFunction == module_loader[last.module + 1].states[last.fn]

InMain == last.fn # 0 /\ LastFunction.ident = "main"

SlotOf(i) == cells[open_upvalues[i]].slot

\* C1: the open-upvalue list holds only Open cells and is strictly monotone
\* by slot (descending, read from one end or the other), so no slot has two cells.
C1_OpenUpvaluesSorted ==
    /\ \A i \in 1..Len(open_upvalues) : cells[open_upvalues[i]].open
    /\ \/ \A i, j \in 1..Len(open_upvalues) : i < j => SlotOf(i) > SlotOf(j)
       \/ \A i, j \in 1..Len(open_upvalues) : i < j => SlotOf(i) < SlotOf(j)

\* a frame was just pushed by Vm::call from a Call opcode or from Iter.map
Entered ==
    /\ Running
    /\ frame(Machine).ip = 0
    /\ Head(kont).k \in {"run", "map"}

\* the run started by such a call has just returned
CallReturned ==
    /\ status = "run"
    /\ last.op \in {"Return", "break"}
    /\ last.ctx \in {"run", "map"}

\* C2: on entry of a call with n arguments slot_offset = len - n - 1 and
\* stack[slot_offset] is the callee; when the call returns the frame is popped
\* and the stack is slot_offset + 1 long with the returned value on top.
C2_CallProtocol ==
    /\ Entered =>
          /\ frame(Machine).slot_offset
                = Len(stack) - prototype(Machine, frame(Machine).closure).num_args - 1
          /\ stack[frame(Machine).slot_offset + 1] = VClosure(frame(Machine).closure)
    /\ CallReturned =>
          /\ Len(frames) = last.nf - 1
          /\ Len(stack) = last.off + 1
          /\ stack[Len(stack)] = last.stack[Len(last.stack)]

\* C3: when Return is about to run the block that is the function's body has
\* completed; the stack holds one value more than at entry, where it held
\* the callee and its arguments.
C3_BlockPushesOne ==
    (Running /\ frame(Machine).ip + 1 <= Len(Code(Machine)) /\ Fetched.op = "Return")
        => Len(stack) = frame(Machine).slot_offset
                          + prototype(Machine, frame(Machine).closure).num_args + 2

\* main ends by reading a name that one `let` of its body binds to an integer literal
ReadsLet ==
    LET final == MainBody[Len(MainBody)]
    IN  /\ final.s = "expr"
        /\ final.expression.e = "path"
        /\ final.expression.parts = <<>>
        /\ \E i \in 1..(Len(MainBody) - 1) :
              /\ MainBody[i].s = "let"
              /\ MainBody[i].ident = final.expression.ident
              /\ MainBody[i].value.e = "int"

BoundValue ==
    LET i == CHOOSE i \in 1..(Len(MainBody) - 1) :
                /\ MainBody[i].s = "let"
                /\ MainBody[i].ident = MainBody[Len(MainBody)].expression.ident
    IN  VInt(MainBody[i].value.n)

\* C4: GetLocal(k) and SetLocal(k) find stack[slot_offset + k], and it is the
\* storage of the name: the GetLocal that reads a let-bound name at the end of
\* main pushes the value the let bound it to.
C4_LocalStorage ==
    /\ status = "panic" => last.op \notin {"GetLocal", "SetLocal"}
    /\ ( /\ ReadsLet
         /\ status = "run"
         /\ last.op = "GetLocal"
         /\ InMain
         /\ last.pc = Len(LastFunction.code) - 1 )
        => stack[Len(stack)] = BoundValue

\* the descriptor d of function s leads to a local of an enclosing function
RECURSIVE Connected(_, _, _)
Connected(states, s, d) ==
    /\ states[s].parent # 0
    /\ IF d.is_local THEN d.index < Len(states[states[s].parent].debug_locals)
       ELSE /\ d.index < Len(states[states[s].parent].upvalues)
            /\ Connected(states, states[s].parent,
                         states[states[s].parent].upvalues[d.index + 1])

\* C5: every reference to a variable of an enclosing function resolves, and
\* every upvalue descriptor is the end of a connected chain: is_local names a
\* local of the parent, otherwise an upvalue of the parent that is connected.
C5_UpvalueChain ==
    /\ status # "CompilerError"
    /\ \A i \in 1..Len(module_loader) :
          \A s \in 1..Len(module_loader[i].states) :
              \A k \in 1..Len(module_loader[i].states[s].upvalues) :
                  Connected(module_loader[i].states, s, module_loader[i].states[s].upvalues[k])

\* C6: closures that capture the same live stack slot hold the same cell.
C6_SharedCell ==
    \A a, b \in 1..Len(closures) :
        \A i \in 1..Len(closures[a].upvalues), j \in 1..Len(closures[b].upvalues) :
            ( /\ cells[closures[a].upvalues[i]].open
              /\ cells[closures[b].upvalues[j]].open
              /\ cells[closures[a].upvalues[i]].slot = cells[closures[b].upvalues[j]].slot )
                => closures[a].upvalues[i] = closures[b].upvalues[j]

\* Return or the teardown in GetTable has just popped a frame
FramePopped ==
    /\ status = "run"
    /\ last.op \in {"Return", "GetTableModule"}
    /\ Len(frames) < last.nf

\* C7: after a frame is popped no closure holds a cell that is Open with a
\* slot at or above the slot_offset of that frame.
C7_NoDanglingUpvalue ==
    FramePopped =>
        \A a \in 1..Len(closures) :
            \A i \in 1..Len(closures[a].upvalues) :
                cells[closures[a].upvalues[i]].open
                    => cells[closures[a].upvalues[i]].slot < last.off

\* the program is the counter: main calls the closure made by `make`, prog times
IsCounter == prog <= MaxCalls

\* C8: each call of the counter closure returns the value it has just stored
\* in the Closed cell, so the program that calls it k times ends with integer k
\* on top of the stack (3 for three calls).
C8_CounterReturns ==
    /\ ( /\ IsCounter
         /\ status = "run"
         /\ last.op = "Return"
         /\ last.fn # 0
         /\ LastFunction.ident = "<anonymous>" )
        => /\ ~cells[closures[last.stack[last.off + 1].v].upvalues[1]].open
           /\ stack[Len(stack)] = cells[closures[last.stack[last.off + 1].v].upvalues[1]].value
    /\ (IsCounter /\ status = "ok") => stack[Len(stack)] = VInt(prog)

\* the body of main is one `if c then a else b` with a literal condition
IsIf ==
    /\ Len(MainBody) = 1
    /\ MainBody[1].s = "expr"
    /\ MainBody[1].expression.e = "if"

LiteralValue(x) ==
    CASE x.e = "bool" -> VBool(x.b)
      [] x.e = "int" -> VInt(x.n)
      [] OTHER -> VUnit

Falsy == is_false(LiteralValue(MainBody[1].expression.condition))

RECURSIVE OpPosition(_, _, _)
OpPosition(code, name, i) ==
    IF i > Len(code) THEN 0
    ELSE IF code[i].op = name THEN i
    ELSE OpPosition(code, name, i + 1)

\* the opcodes of a lie between the ExtraArg of the JumpIfFalse and the Jump,
\* those of b between the ExtraArg of the Jump and the Return of main
BranchA(code) ==
    (OpPosition(code, "JumpIfFalse", 1) + 2)..(OpPosition(code, "Jump", 1) - 1)

BranchB(code) == (OpPosition(code, "Jump", 1) + 2)..(Len(code) - 1)

\* C9: with a falsy condition no opcode of a runs and JumpIfFalse continues
\* at b (through the ExtraArg slot before it); with a truthy condition no
\* opcode of b runs and the Jump after a continues at the opcode after b.
C9_IfBranches ==
    (IsIf /\ Running /\ InMain /\ Len(frames) = 2) =>
        /\ Falsy => last.pc \notin BranchA(LastFunction.code)
        /\ ~Falsy => last.pc \notin BranchB(LastFunction.code)
        /\ (Falsy /\ last.op = "JumpIfFalse")
              => frame(Machine).ip + 1 \in
                    { OpPosition(LastFunction.code, "Jump", 1) + 1,
                      OpPosition(LastFunction.code, "Jump", 1) + 2 }
        /\ (~Falsy /\ last.op = "Jump")
              => frame(Machine).ip + 1 = Len(LastFunction.code)

\* a Call on a native closure has returned Ok to the loop that ran the Call:
\* straight from the Call step, or from the last turn of Iter.map
NativeReturned ==
    /\ Running
    /\ \/ last.op = "Call" /\ Len(frames) = last.nf
       \/ last.op = "map" /\ Len(frames) = last.nf - 1

\* slot_offset of the native frame: the callee's slot
NativeOffset ==
    IF last.op = "Call" THEN Len(last.stack) - last.a - 1 ELSE last.off

\* C10: after a Call on a native closure returns Ok the stack is
\* slot_offset + 1 long, the values below slot_offset are the ones that were
\* there, and the top is the result (unit from Io.print, an array from Iter.map).
C10_NativeReturn ==
    NativeReturned =>
        /\ Len(stack) = NativeOffset + 1
        /\ SubSeq(stack, 1, NativeOffset) = SubSeq(last.stack, 1, NativeOffset)
        /\ stack[Len(stack)].t \in {"unit", "array"}


\* the next opcode is a Call whose callee slot holds a native closure
CallsNative ==
    /\ Running
    /\ frame(Machine).ip + 1 <= Len(Code(Machine))
    /\ Fetched.op = "Call"
    /\ Len(stack) >= Fetched.a + 1
    /\ stack[Len(stack) - Fetched.a].t = "closure"
    /\ closures[stack[Len(stack) - Fetched.a].v].native

\* C11: when a native function is entered by Call(n), Vm::top() is n.
C11_TopIsArgumentCount ==
    CallsNative =>
        top(native_frame(Machine, stack[Len(stack) - Fetched.a].v, Fetched.a)) = Fetched.a


\* Vm::call has just refused a closure because of its argument count
ArityRefused == status = "IncorrectNumberOfArguments" /\ last.op \in {"Call", "map"}

\* the refused call came from a Call opcode on a prototype closure
RefusedByCall ==
    /\ ArityRefused
    /\ last.op = "Call"
    /\ ~closures[last.stack[Len(last.stack) - last.a].v].native

\* C12: a call with the wrong number of arguments returns
\* IncorrectNumberOfArguments, pushes no frame and leaves the stack as it was:
\* the stack of the Call opcode, or the callee and element Iter.map had pushed
\* under its own native frame.
C12_ArityError ==
    ArityRefused =>
        IF RefusedByCall
        THEN Len(frames) = last.nf /\ stack = last.stack
        ELSE /\ Len(frames) = last.nf + 1
             /\ closures[frame(Machine).closure].native
             /\ Len(stack) >= 2
             /\ stack[Len(stack) - 1].t = "closure"

C12_Witness == RefusedByCall /\ Len(frames) = last.nf /\ stack = last.stack


\* C13: there are never more than NUM_FRAMES live call frames, and a run that
\* the host has to give up as too deep ends in RuntimeError::StackOverflow.
C13_FrameLimit ==
    /\ Len(frames) <= NUM_FRAMES
    /\ status # "HostStackExhausted"


\* the variants of RuntimeError
RuntimeError ==
    { "StackOverflow", "IncorrectNumberOfArguments", "NegateOperatorOnNonNumericValue",
      "CannotCallNonCallableValue", "CannotLoadNativeModuleAtRuntime", "UnexpectedType" }

\* the last step ran an arithmetic opcode on an operand that is not a number
NonNumericOperand ==
    /\ last.op \in {"Add", "Subtract", "Multiply"}
    /\ Len(last.stack) >= 2
    /\ \/ last.stack[Len(last.stack)].t # "int"
       \/ last.stack[Len(last.stack) - 1].t # "int"

\* C14: an arithmetic opcode on a non-numeric operand ends the run with a
\* RuntimeError value, and no Open cell then names a slot at or beyond the
\* end of the stack.
C14_ArithmeticError ==
    NonNumericOperand =>
        /\ status \in RuntimeError
        /\ \A i \in 1..Len(cells) : cells[i].open => cells[i].slot < Len(stack)


\* the body of main is one integer literal
IsLiteral ==
    /\ Len(MainBody) = 1
    /\ MainBody[1].s = "expr"
    /\ MainBody[1].expression.e = "int"

\* the prototype compiled for `main` of the module the host executes
MainFunction ==
    LET states == module_loader[Len(module_loader)].states
    IN  states[CHOOSE i \in 1..Len(states) : states[i].ident = "main"]

\* C16: a literal n in 0..255 compiles to the one opcode LoadInt n with an
\* empty constant pool, a greater one to LoadConst(i) with constants[i] = n,
\* and both execute to Integer(n).
C16_IntegerLiteral ==
    (IsLiteral /\ status # "CompilerError") =>
        /\ Len(MainFunction.code) = 2
        /\ IF MainBody[1].expression.n <= U8Max
           THEN /\ MainFunction.code[1] = Op("LoadInt", MainBody[1].expression.n)
                /\ MainFunction.constants = <<>>
           ELSE /\ MainFunction.code[1].op = "LoadConst"
                /\ MainFunction.code[1].a < Len(MainFunction.constants)
                /\ MainFunction.constants[MainFunction.code[1].a + 1]
                      = VInt(MainBody[1].expression.n)
        /\ (last.op \in {"LoadInt", "LoadConst"} /\ InMain)
              => stack[Len(stack)] = VInt(MainBody[1].expression.n)
        /\ status = "ok" => stack[Len(stack)] = VInt(MainBody[1].expression.n)

\* main has returned the value of a literal that went through the constant pool
C16_Witness ==
    /\ IsLiteral
    /\ MainBody[1].expression.n > U8Max
    /\ status = "ok"
    /\ stack[Len(stack)] = VInt(MainBody[1].expression.n)

\* the top level of the module the host executes has just run to its end,
\* on the empty stack of a new VM
TopLevelDone ==
    /\ status = "run"
    /\ last.op = "break"
    /\ last.ctx = "load_module"
    /\ last.nf = 1

\* the statements of that module and the module compiled from them
TopStatements == Programs[prog][Len(Programs[prog])].stmts

TopModule == module_loader[Len(module_loader)]

\* the value a top-level initialiser denotes: a literal, or the chosen branch
\* of an `if` on a literal whose branches are one literal each
Denoted(x) ==
    IF x.e = "if"
    THEN IF is_false(LiteralValue(x.condition))
         THEN LiteralValue(x.else.stmts[1].expression)
         ELSE LiteralValue(x.block.stmts[1].expression)
    ELSE LiteralValue(x)

\* C17: after the top level of a module has run, slot i holds the value
\* bound to locals[i]: slot 0 the module closure, then one slot per statement,
\* the closure of a function or the value of a let, and nothing else.
C17_ModuleSlots ==
    TopLevelDone =>
        /\ Len(TopModule.locals) = Len(TopStatements) + 1
        /\ Len(stack) = Len(TopModule.locals)
        /\ stack[1] = VClosure(frames[1].closure)
        /\ \A i \in 1..Len(TopStatements) :
              /\ TopModule.locals[i + 1] = TopStatements[i].ident
              /\ IF TopStatements[i].s = "function"
                 THEN /\ stack[i + 1].t = "closure"
                      /\ ~closures[stack[i + 1].v].native
                      /\ TopModule.states[closures[stack[i + 1].v].fn].ident
                            = TopStatements[i].ident
                 ELSE stack[i + 1] = Denoted(TopStatements[i].value)

(***************************************************************************)
(* Prototype::add_constant on its own: a prototype receives constants one  *)
(* after the other, new ones and ones it already holds.                    *)
(***************************************************************************)
\* no virtual machine is running
NoVm ==
    /\ prog = 0
    /\ module_loader = <<>>
    /\ frames = <<>>
    /\ stack = <<>>
    /\ open_upvalues = <<>>
    /\ cells = <<>>
    /\ closures = <<>>
    /\ arrays = <<>>
    /\ kont = <<>>
    /\ mode = "host"
    /\ status = "idle"
    /\ last = <<>>
    /\ entry = <<>>

VmVars ==
    <<prog, module_loader, frames, stack, open_upvalues, cells, closures, arrays, kont,
      mode, status, last, entry>>

\* Prototype::new: an empty pool
PoolInit ==
    /\ NoVm
    /\ object = CompilerState("f", FALSE, 0, 0)
    /\ outcome = [called |-> FALSE, value |-> VUnit, idx |-> 0, was |-> -1, len |-> 0]

\* the values offered next: one the pool does not hold, its first and its last entry
Offered ==
    {VInt(U8Max + 1 + Len(object.constants))}
        \cup {object.constants[i] : i \in {1, Len(object.constants)} \cap 1..Len(object.constants)}

\* one call of add_constant; outcome keeps the value, the index returned, the
\* position the value had before the call and the length of the pool before it
AddConstant ==
    \E value \in Offered :
        /\ object' = proto_add_constant(object, value).s
        /\ outcome' = [ called |-> TRUE,
                        value |-> value,
                       idx |-> proto_add_constant(object, value).idx,
                       was |-> PositionOf(object.constants, value, 1),
                       len |-> Len(object.constants) ]
        /\ UNCHANGED VmVars

PoolNext == AddConstant

PoolSpec == PoolInit /\ [][PoolNext]_vars

\* C15: the pool never holds more than 256 entries nor two equal ones; an
\* index returned is below 256 and names an entry equal to the value; a value
\* the pool already held gets the index it had and the pool does not grow,
\* whatever its size; only a new value offered to a pool of 256 entries fails.
C15_ConstantPool ==
    /\ Len(object.constants) <= U8Max + 1
    /\ \A i, j \in 1..Len(object.constants) :
          object.constants[i] = object.constants[j] => i = j
    /\ (outcome.called /\ outcome.idx >= 0) =>
          /\ outcome.idx <= U8Max
          /\ object.constants[outcome.idx + 1] = outcome.value
    /\ (outcome.called /\ outcome.was >= 0) =>
          /\ outcome.idx = outcome.was
          /\ Len(object.constants) = outcome.len
    /\ (outcome.called /\ outcome.idx < 0) => (outcome.was < 0 /\ outcome.len = U8Max + 1)

\* the source of the module at a loader index behind the native modules
SourceOf(index) == Programs[prog][index - Len(new_with_std) + 1]

\* the body of `main` of the module the last execute_module was called on
EntryBody ==
    LET stmts == SourceOf(entry.index).stmts
    IN  stmts[CHOOSE i \in 1..Len(stmts) : stmts[i].ident = "main"].expr.stmts

\* that module is a compiled one whose `main` is one integer literal
EntryIsLiteral ==
    /\ entry.runs > 0
    /\ entry.index >= Len(new_with_std)
    /\ \E i \in 1..Len(SourceOf(entry.index).stmts) :
          /\ SourceOf(entry.index).stmts[i].s = "function"
          /\ SourceOf(entry.index).stmts[i].ident = "main"
    /\ Len(EntryBody) = 1
    /\ EntryBody[1].s = "expr"
    /\ EntryBody[1].expression.e = "int"

\* C19: when execute_module(index, "main") has returned Ok, the top of the
\* stack is the value `main` of the module at index returns, for every call
\* the host makes on the same VM.
C19_ExecuteModuleTop ==
    (status = "ok" /\ EntryIsLiteral) =>
        /\ stack # <<>>
        /\ stack[Len(stack)] = VInt(EntryBody[1].expression.n)

(***************************************************************************)
(* The module loader on its own: a host registers native modules and loads *)
(* sources and files in any order.  object is the ModuleLoader, outcome    *)
(* what the last call was given and returned and the loader before it.     *)
(***************************************************************************)
LoaderInit ==
    /\ NoVm
    /\ object = loader_new
    /\ outcome = [called |-> FALSE, op |-> "new", ident |-> "", err |-> "", index |-> -1,
                  before |-> <<>>]

\* the sources a host hands to load_module_from_source: one that compiles,
\* one whose imports load further files, one that fails after its import was
\* loaded, one that fails at once and one whose import ends the host
LoaderSources ==
    << << Let("a", IntLit(1)) >>,
       << Import("top"), Let("b", Name("z")) >>,
       << Import("lib"), Let("c", Name("nowhere")) >>,
       << Let("d", Name("nowhere")) >>,
       << Import("bad") >> >>

LoaderIdents == {"m", "n"}

HostCall(op, ident, r) ==
    /\ r.err # "panic"
    /\ object' = r.loader
    /\ outcome' = [called |-> TRUE, op |-> op, ident |-> ident, err |-> r.err,
                   index |-> r.index, before |-> object]
    /\ UNCHANGED VmVars

HostAddModule ==
    /\ Len(object) < MaxModules
    /\ \E m \in {IterModule, StringModule} :
          HostCall("add_module", m.ident,
                   [loader |-> add_module(object, m), err |-> "", index |-> -1])

HostAddModules ==
    /\ Len(object) < MaxModules
    /\ HostCall("add_modules", "",
                [loader |-> add_modules(object, stdlib_modules), err |-> "", index |-> -1])

HostLoadFromSource ==
    /\ Len(object) < MaxModules
    /\ \E ident \in LoaderIdents, i \in 1..Len(LoaderSources) :
          HostCall("load_module_from_source", ident,
                   load_module_from_source(object, ident, LoaderSources[i]))

HostLoadModule ==
    /\ Len(object) < MaxModules
    /\ \E file \in DOMAIN Files :
          HostCall("load_module", file, loader_load_module(object, file))

LoaderNext == HostAddModule \/ HostAddModules \/ HostLoadFromSource \/ HostLoadModule

LoaderSpec == LoaderInit /\ [][LoaderNext]_vars

Loads(op) == outcome.called /\ outcome.op = op

LoadReturned ==
    /\ outcome.called
    /\ outcome.op \in {"load_module_from_source", "load_module"}
    /\ outcome.err = ""

\* C18: whatever the host does to the loader, the module registered at index
\* i is still the one module_at(i) returns; the index a load returns is the
\* position of the module it compiled, which is the last one, also when the
\* compilation loaded other files first; a load_module_from_source that
\* fails adds no module of the identifier it was given.
C18_StableIndices ==
    /\ outcome.called =>
          \A i \in 1..Len(outcome.before) :
              module_at(object, i - 1) = << outcome.before[i] >>
    /\ LoadReturned =>
          /\ outcome.index = Len(object) - 1
          /\ outcome.index >= Len(outcome.before)
          /\ module_at(object, outcome.index) # <<>>
          /\ object[outcome.index + 1].ident = outcome.ident
          /\ ~object[outcome.index + 1].native
    /\ (Loads("load_module_from_source") /\ outcome.err # "") =>
          \A i \in Len(outcome.before) + 1..Len(object) : object[i].ident # outcome.ident

\* a load_module_from_source that returned after its imports had registered
\* other modules behind the ones the host had registered
C18_Witness ==
    /\ Loads("load_module_from_source")
    /\ Len(outcome.before) > 1
    /\ outcome.err = ""
    /\ outcome.index > Len(outcome.before)

\* a load_module_from_source that failed after its import was registered
FailedAfterImport ==
    /\ Loads("load_module_from_source")
    /\ outcome.err # ""
    /\ Len(object) > Len(outcome.before)

(***************************************************************************)
(* Values on their own (src/src/value.rs): equality and hashing.  object   *)
(* is the heap of reference-counted allocations, named by their position   *)
(* (the address Rc::as_ptr yields), outcome the last comparison.            *)
(***************************************************************************)
\* an f64 by the fields of its bit pattern: sign, exponent, mantissa
Floats ==
    << [sign |-> 0, exp |-> 0, mant |-> 0],        \* 0.0
       [sign |-> 1, exp |-> 0, mant |-> 0],        \* -0.0
       [sign |-> 0, exp |-> 1023, mant |-> 0],     \* 1.0
       [sign |-> 0, exp |-> 2047, mant |-> 1] >>   \* NaN

VNumber(i) == [t |-> "number", v |-> i]
VUserData(id) == [t |-> "user_data", v |-> id]

\* f64::to_bits
to_bits(f) == <<f.sign, f.exp, f.mant>>

IsNaN(f) == f.exp = 2047 /\ f.mant # 0

\* f64 == f64: a NaN equals nothing, the two zeros are equal
float_eq(l, r) ==
    /\ ~IsNaN(l) /\ ~IsNaN(r)
    /\ \/ l = r
       \/ l.exp = 0 /\ l.mant = 0 /\ r.exp = 0 /\ r.mant = 0

\* core::mem::discriminant: the position of the variant in enum Value
discriminant(value) ==
    CASE value.t = "unit" -> 0
      [] value.t = "bool" -> 1
      [] value.t = "int" -> 2
      [] value.t = "number" -> 3
      [] value.t = "string" -> 4
      [] value.t = "table" -> 5
      [] value.t = "closure" -> 6
      [] value.t = "array" -> 7
      [] value.t = "module" -> 8
      [] value.t = "user_data" -> 9

\* impl PartialEq for Value over the heap: Rc<T> == Rc<T> compares the
\* values behind the two pointers, RefCell<Vec<Value>> item by item
RECURSIVE value_eq(_, _, _)
value_eq(heap, l, r) ==
    IF l.t # r.t THEN discriminant(l) = discriminant(r)
    ELSE IF l.t \in {"bool", "int", "string"} THEN l.v = r.v
    ELSE IF l.t = "number" THEN float_eq(Floats[l.v], Floats[r.v])
    ELSE IF l.t = "array"
    THEN /\ Len(heap[l.v].items) = Len(heap[r.v].items)
         /\ \A i \in 1..Len(heap[l.v].items) :
                value_eq(heap, heap[l.v].items[i], heap[r.v].items[i])
    ELSE IF l.t = "user_data" THEN l.v = r.v
    ELSE discriminant(l) = discriminant(r)

\* impl Hash for Value: what is fed to the hasher, the discriminant first
value_hash(value) ==
    << discriminant(value) >>
    \o CASE value.t = "unit" -> <<>>
          [] value.t = "number" -> to_bits(Floats[value.v])
          [] OTHER -> << value.v >>

ValueInit ==
    /\ NoVm
    /\ object = <<>>
    /\ outcome = [called |-> FALSE, a |-> VUnit, b |-> VUnit, eq |-> TRUE,
                  hash_a |-> <<0>>, hash_b |-> <<0>>]

Scalars ==
    {VUnit, VBool(TRUE), VBool(FALSE), VInt(0), VInt(1)}
        \cup {VNumber(i) : i \in 1..Len(Floats)}
        \cup {VString(i) : i \in 1..Len(Strings)}

Allocation(kind, items) == [kind |-> kind, items |-> items]

\* the values that exist over the heap
HeapValues ==
    {IF object[i].kind = "array" THEN VArray(i) ELSE VUserData(i) : i \in 1..Len(object)}

\* Rc::new(RefCell::new(vec![..])) of nothing, one integer or one existing value
NewArray ==
    /\ Len(object) < MaxHeap
    /\ \E items \in {<<>>, <<VInt(1)>>} \cup {<<x>> : x \in HeapValues} :
          object' = Append(object, Allocation("array", items))
    /\ UNCHANGED outcome
    /\ UNCHANGED VmVars

\* Box::new(Rc::new(..)) of a user datum
NewUserData ==
    /\ Len(object) < MaxHeap
    /\ object' = Append(object, Allocation("user_data", <<>>))
    /\ UNCHANGED outcome
    /\ UNCHANGED VmVars

\* a == b and the two hashes of any two values
Compare ==
    /\ \E a, b \in Scalars \cup HeapValues :
          outcome' = [called |-> TRUE, a |-> a, b |-> b, eq |-> value_eq(object, a, b),
                      hash_a |-> value_hash(a), hash_b |-> value_hash(b)]
    /\ UNCHANGED object
    /\ UNCHANGED VmVars

ValueNext == NewArray \/ NewUserData \/ Compare

ValueSpec == ValueInit /\ [][ValueNext]_vars

Compared(kinds) == outcome.called /\ outcome.a.t \in kinds /\ outcome.b.t \in kinds

\* C20: two scalars are equal exactly when they are the same scalar (floats
\* as IEEE compares them), two arrays or user data exactly when they are the
\* same allocation, and equal values have equal hashes.
C20_EqualityAndHash ==
    /\ Compared({"unit", "bool", "int", "string"}) =>
          (outcome.eq <=> outcome.a = outcome.b)
    /\ Compared({"number"}) =>
          (outcome.eq <=> float_eq(Floats[outcome.a.v], Floats[outcome.b.v]))
    /\ Compared({"array", "user_data"}) =>
          (outcome.eq <=> outcome.a = outcome.b)
    /\ (outcome.called /\ outcome.eq) => outcome.hash_a = outcome.hash_b

(***************************************************************************)
(* The lexer (src/src/lexer.rs).  A source is the sequence of its          *)
(* characters, positions count from 0 and a span is <<start, end>>.         *)
(***************************************************************************)
Digits == {"0", "1", "2", "3", "4", "5", "6", "7", "8", "9"}
Letters == {"a", "b", "c", "d", "e", "f", "g", "h", "i", "l", "m", "n", "o", "p", "r", "s",
            "t", "u", "x", "y", "z"}

\* char::is_whitespace other than the line feed
IsSpace(ch) == ch \in {" ", "\t"}
IsNumeric(ch) == ch \in Digits
IsAlphabetic(ch) == ch \in Letters

\* source.chars().nth(i): "" is None
CharAt(source, i) == IF i >= 0 /\ i < Len(source) THEN source[i + 1] ELSE ""

\* chars().skip(from).take_while(class).count()
Run(source, from, Class(_)) ==
    IF from >= Len(source) THEN 0
    ELSE CHOOSE n \in 0..(Len(source) - from) :
            /\ \A i \in 0..(n - 1) : Class(CharAt(source, from + i))
            /\ ~Class(CharAt(source, from + n))

\* Lexer::new
Lexer(source) ==
    [source |-> source, position |-> 0, last_space |-> 0, indentation |-> 0,
     is_new_line |-> TRUE, last_token |-> "Eos", line |-> 0]

Token(token_type, start, end) == [token_type |-> token_type, span |-> <<start, end>>]

\* Lexer::slice
slice(source, span) == SubSeq(source, span[1] + 1, span[2])

\* token::get_reserved
get_reserved(word) ==
    CASE word = <<"t", "r", "u", "e">> -> "True"
      [] word = <<"f", "a", "l", "s", "e">> -> "False"
      [] word = <<"l", "e", "t">> -> "Let"
      [] word = <<"f", "n">> -> "Function"
      [] word = <<"a", "n", "d">> -> "And"
      [] word = <<"n", "o", "t">> -> "Not"
      [] word = <<"o", "r">> -> "Or"
      [] word = <<"i", "s">> -> "Is"
      [] word = <<"m", "a", "t", "c", "h">> -> "Match"
      [] word = <<"i", "f">> -> "If"
      [] word = <<"t", "h", "e", "n">> -> "Then"
      [] word = <<"e", "l", "s", "e">> -> "Else"
      [] word = <<"f", "r", "o", "m">> -> "From"
      [] word = <<"i", "m", "p", "o", "r", "t">> -> "Import"
      [] word = <<"a", "s">> -> "As"
      [] OTHER -> "Ident"

\* a value computed once and used under a name
With(value, Use(_)) == Use(value)

\* the match on the character in next_internal: the token and how many
\* characters it spans, for the character ch at position start
Scan(source, start, ch) ==
    With(CharAt(source, start + 1), LAMBDA next :
      CASE ch = "\n" -> [t |-> "NewLine", len |-> 1]
        [] ch = "#" -> [t |-> "Hash", len |-> 1]
        [] ch = ":" -> [t |-> "Colon", len |-> 1]
        [] ch = "," -> [t |-> "Comma", len |-> 1]
        [] ch = "!" -> IF next = "=" THEN [t |-> "NotEqual", len |-> 2]
                       ELSE [t |-> "Unknown", len |-> 1]
        [] ch = "+" -> [t |-> "Plus", len |-> 1]
        [] ch = "=" -> IF next = "=" THEN [t |-> "Equal", len |-> 2]
                       ELSE [t |-> "Assign", len |-> 1]
        [] ch = "-" -> IF next = ">" THEN [t |-> "ThinArrow", len |-> 2]
                       ELSE [t |-> "Minus", len |-> 1]
        [] ch = "*" -> [t |-> "Mul", len |-> 1]
        [] ch = "%" -> [t |-> "Mod", len |-> 1]
        [] ch = "/" -> IF next = "/" THEN [t |-> "IDiv", len |-> 2]
                       ELSE [t |-> "Div", len |-> 1]
        [] ch = "\"" -> [t |-> "DoubleQuote", len |-> 1]
        [] ch = "'" -> [t |-> "SingleQuote", len |-> 1]
        [] ch = "." -> IF next = "."
                       THEN IF CharAt(source, start + 2) = "."
                            THEN [t |-> "Spread", len |-> 3] ELSE [t |-> "Dots", len |-> 2]
                       ELSE [t |-> "Dot", len |-> 1]
        [] ch = "<" -> IF next = "<" THEN [t |-> "Lsh", len |-> 2]
                       ELSE IF next = "=" THEN [t |-> "LessEqual", len |-> 2]
                       ELSE [t |-> "Less", len |-> 1]
        [] ch = ">" -> IF next = ">" THEN [t |-> "Rsh", len |-> 2]
                       ELSE IF next = "=" THEN [t |-> "GreaterEqual", len |-> 2]
                       ELSE [t |-> "Greater", len |-> 1]
        [] ch = "{" -> [t |-> "LCurly", len |-> 1]
        [] ch = "}" -> [t |-> "RCurly", len |-> 1]
        [] ch = "[" -> [t |-> "LBracket", len |-> 1]
        [] ch = "]" -> [t |-> "RBracket", len |-> 1]
        [] ch = "(" -> IF next = ")" THEN [t |-> "Unit", len |-> 2]
                       ELSE [t |-> "LParen", len |-> 1]
        [] ch = ")" -> [t |-> "RParen", len |-> 1]
        [] ch = "&" -> [t |-> "BinAnd", len |-> 1]
        [] ch = "|" -> IF next = ">" THEN [t |-> "Pipe", len |-> 2]
                       ELSE [t |-> "BinAnd", len |-> 1]
        [] ch = "^" -> [t |-> "BinXor", len |-> 1]
        [] ch = "~" -> [t |-> "BinNot", len |-> 1]
        [] IsNumeric(ch) ->
              [t |-> "Number",
               len |-> 1 + Run(source, start + 1,
                               LAMBDA c : IsNumeric(c) \/ c = "_" \/ c = ".")]
        [] IsAlphabetic(ch) \/ ch = "_" ->
              With(Run(source, start + 1,
                       LAMBDA c : IsAlphabetic(c) \/ IsNumeric(c) \/ c = "_"),
                   LAMBDA len :
                     [t |-> get_reserved(SubSeq(source, start + 1, start + 1 + len)),
                      len |-> 1 + len])
        [] OTHER -> [t |-> "Unknown", len |-> 1])

\* Lexer::next_internal after the whitespace was counted: l is the lexer
\* with the whitespace consumed
next_token(l) ==
    IF CharAt(l.source, l.position) = ""
    THEN [l |-> [l EXCEPT !.position = @ + 1, !.last_token = "Eos"],
          token |-> Token("Eos", l.position, l.position + 1)]
    ELSE With(Scan(l.source, l.position, CharAt(l.source, l.position)), LAMBDA scanned :
           [l |-> [l EXCEPT !.position = @ + scanned.len,
                            !.last_token = scanned.t,
                            !.is_new_line = scanned.t = "NewLine",
                            !.line = IF scanned.t = "NewLine" THEN @ + 1 ELSE @],
            token |-> Token(scanned.t, l.position, l.position + scanned.len)])

\* Lexer::next_internal
next_internal(l, skip_empty) ==
    With(Run(l.source, l.position, IsSpace), LAMBDA whitespace :
    With([l EXCEPT !.position = @ + whitespace,
                   !.last_space = whitespace,
                   !.indentation = IF l.is_new_line THEN whitespace ELSE @,
                   !.is_new_line = FALSE], LAMBDA spaced :
      IF whitespace > 0 /\ ~skip_empty
      THEN [l |-> spaced, token |-> Token("Empty", l.position, l.position + whitespace)]
      ELSE next_token(spaced)))

\* Lexer::next, Lexer::next_empty
lexer_next(l) == next_internal(l, TRUE)
next_empty(l) == next_internal(l, FALSE)

\* Lexer::peek_nth: the type of the last token after n + 1 calls of next
RECURSIVE peek_nth(_, _)
peek_nth(l, n) ==
    With(lexer_next(l).l, LAMBDA l1 :
      IF n = 0 THEN l1.last_token ELSE peek_nth(l1, n - 1))

peek(l) == peek_nth(l, 0)
peek_empty(l) == next_empty(l).token.token_type

\* Lexer::skip_new_lines
RECURSIVE skip_new_lines(_)
skip_new_lines(l) ==
    With(lexer_next(l), LAMBDA n :
      IF n.token.token_type = "NewLine" THEN skip_new_lines(n.l) ELSE l)

\* Lexer::peek_indentation
peek_indentation(l) ==
    With(lexer_next(skip_new_lines(l)), LAMBDA n :
      IF n.token.token_type = "Eos" THEN 0 ELSE n.l.indentation)

\* an Option<Token>: none is None
NoToken(l) == [l |-> l, token |-> Token("None", 0, 0)]

\* Some(token) if the token is of the type, None and the lexer l otherwise
Checked(l, n, token_type) == IF n.token.token_type = token_type THEN n ELSE NoToken(l)

\* Lexer::next_checked
next_checked(l, token_type) == Checked(l, lexer_next(l), token_type)

\* Lexer::next_indented: the new line is consumed also when None is returned
next_indented(l) ==
    With(lexer_next(l), LAMBDA n :
      IF n.token.token_type = "NewLine"
      THEN IF peek_indentation(n.l) > n.l.indentation THEN lexer_next(n.l)
           ELSE NoToken(n.l)
      ELSE n)

\* Lexer::peek_indented
peek_indented(l) == next_indented(l).token.token_type

\* Lexer::next_checked_indented
next_checked_indented(l, token_type) == Checked(l, next_indented(l), token_type)

\* Lexer::next_checked_empty
next_checked_empty(l, token_type) == Checked(l, next_empty(l), token_type)

\* Lexer::next_continued
next_continued(l, indentation) ==
    With(lexer_next(l), LAMBDA n :
      IF n.token.token_type = "NewLine"
      THEN IF peek_indentation(l) = indentation THEN lexer_next(skip_new_lines(l))
           ELSE NoToken(l)
      ELSE n)

\* Lexer::next_checked_continued (peek_continued is next_continued on a clone)
next_checked_continued(l, token_type, indentation) ==
    Checked(l, next_continued(l, indentation), token_type)

\* Lexer::skip_line
RECURSIVE skip_line(_)
skip_line(l) ==
    With(lexer_next(l), LAMBDA n :
      IF n.token.token_type # "NewLine" THEN skip_line(n.l) ELSE n.l)

\* Lexer::skip_comments_and_new_lines
RECURSIVE skip_comments_and_new_lines(_)
skip_comments_and_new_lines(l) ==
    With(peek(l), LAMBDA token :
      IF token = "Hash" THEN skip_comments_and_new_lines(skip_line(l))
      ELSE IF token = "NewLine" THEN skip_comments_and_new_lines(skip_new_lines(l))
      ELSE l)

\* TokenType::is_primary
is_primary(token_type) ==
    token_type \in {"Ident", "LParen", "Number", "Not", "Minus", "True", "False", "Unit",
                    "DoubleQuote", "LCurly", "LBracket", "Function", "If"}

(***************************************************************************)
(* The parser (src/src/parser.rs).  Every method returns the parser it     *)
(* leaves behind, its value and its error ("" is Ok).  Identifiers and     *)
(* string literals are the characters of their slice.  Tables are outside  *)
(* the sources considered.                                                 *)
(***************************************************************************)
\* Parser::new
Parser(source) ==
    [lexer |-> Lexer(source), last_expr_start_position |-> 0, last_expr_line |-> 0,
     depth |-> 0, call_depth |-> 0]

ParseOk(p, v) == [p |-> p, v |-> v, err |-> ""]
ParseErr(p, e) == [p |-> p, v |-> <<>>, err |-> e]

WithLexer(p, l) == [p EXCEPT !.lexer = l]

\* the ? operator: the error of r, or what follows with r
Try(r, Use(_)) == IF r.err # "" THEN r ELSE Use(r)

\* the token asked for, or ParserError::UnexpectedToken
Expected(p, n, token_type) ==
    IF n.token.token_type = token_type THEN ParseOk(WithLexer(p, n.l), n.token)
    ELSE ParseErr(p, "UnexpectedToken")

\* Parser::expect: the value is the token
expect(p, token_type) == Expected(p, lexer_next(p.lexer), token_type)

\* Parser::expect_indented
expect_indented(p, token_type) == Expected(p, next_indented(p.lexer), token_type)

\* Operation::precedence
precedence(operation) ==
    CASE operation = "Assignment" -> 10
      [] operation \in {"Greater", "GreaterEqual", "Equal", "NotEqual", "Less", "LessEqual",
                        "And", "Or"} -> 20
      [] operation \in {"Add", "Subtract"} -> 30
      [] operation \in {"Multiply", "Divide", "IDivide", "Modulus"} -> 40
      [] OTHER -> 50

\* the match of Parser::operator on the token: "" is None
operation_of(token) ==
    CASE token = "Plus" -> "Add"
      [] token = "Minus" -> "Subtract"
      [] token = "Div" -> "Divide"
      [] token = "IDiv" -> "IDivide"
      [] token = "Mul" -> "Multiply"
      [] token = "Mod" -> "Modulus"
      [] token = "And" -> "And"
      [] token = "Or" -> "Or"
      [] token = "Greater" -> "Greater"
      [] token = "GreaterEqual" -> "GreaterEqual"
      [] token = "Equal" -> "Equal"
      [] token = "NotEqual" -> "NotEqual"
      [] token = "Less" -> "Less"
      [] token = "LessEqual" -> "LessEqual"
      [] token = "Assign" -> "Assignment"
      [] OTHER -> ""

\* Parser::operator
operator(p) == operation_of(peek_indented(p.lexer))

\* str::parse::<i64> of a run of digits
RECURSIVE DecimalValue(_, _)
DecimalValue(chars, acc) ==
    IF chars = <<>> THEN acc
    ELSE DecimalValue(Tail(chars),
                      10 * acc + (CHOOSE d \in 0..9 :
                                     Head(chars) = <<"0", "1", "2", "3", "4", "5", "6", "7",
                                                     "8", "9">>[d + 1]))

NumberLit(chars) == [e |-> "number", digits |-> chars]
StringLit(chars) == [e |-> "string", s |-> chars]
InterpolatedString(format, arguments) ==
    [e |-> "interpolated", format |-> format, arguments |-> arguments]
InterpolatedArgument(offset, expression) == [offset |-> offset, expression |-> expression]

\* the TokenType::Number arm of Parser::primary over the slice of the token
number(p, num) ==
    IF \E i \in 1..Len(num) : num[i] = "."
    THEN IF \E i \in 1..Len(num) : num[i] = "_" THEN ParseErr(p, "UnableToParseNumber")
         ELSE ParseOk(p, NumberLit(IF num[Len(num)] = "." THEN Append(num, "0") ELSE num))
    ELSE IF \E i \in 1..Len(num) : num[i] = "_" THEN ParseErr(p, "UnableToParseInt")
    ELSE ParseOk(p, IntLit(DecimalValue(num, 0)))

\* The methods of the parser call one another through Method, which names the
\* method called; a loop of a method is an operator of its own.
RECURSIVE Method(_, _), ExpressionLoop(_, _, _), PathLoop(_, _, _), PipeLoop(_, _, _),
          ArgsLoop(_, _, _), BlockLoop(_, _, _), StringLoop(_, _, _, _), ArrayLoop(_, _),
          function_args(_, _, _)

\* the loop of Parser::path
PathLoop(p, ident, parts) ==
    With(next_empty(p.lexer), LAMBDA n :
    With(WithLexer(p, n.l), LAMBDA after :
      IF n.token.token_type = "LBracket"
      THEN Try(Method("parser_primary", after), LAMBDA expr :
           Try(expect(expr.p, "RBracket"), LAMBDA closed :
             PathLoop(closed.p, ident, Append(parts, PartIndex(expr.v)))))
      ELSE IF n.token.token_type = "Dot"
      THEN IF peek_empty(after.lexer) = "Empty" THEN ParseErr(after, "InvalidEmptySpace")
           ELSE Try(expect(after, "Ident"), LAMBDA named :
                  PathLoop(named.p, ident,
                           Append(parts, PartIdent(slice(p.lexer.source, named.v.span)))))
      ELSE ParseOk(p, PathOf(ident, parts))))

\* Parser::path
parser_path(p) ==
    Try(expect(p, "Ident"), LAMBDA named :
      PathLoop(named.p, slice(p.lexer.source, named.v.span), <<>>))

\* any primary token, `-` included, makes the call
follows_primary_minus_too(l, but_minus) ==
    is_primary(next_indented(l).token.token_type)

\* the answer of Parser::is_call from the token that follows
follows_primary(l, but_minus) ==
    With(next_indented(l).token.token_type, LAMBDA follows :
      is_primary(follows) /\ (but_minus => follows # "Minus"))

\* Parser::is_call on a clone of the parser: the value is the answer
is_call(p) ==
    With(lexer_next(p.lexer), LAMBDA n :
      IF n.token.token_type = "Ident"
      THEN Try(Method("parser_path", p), LAMBDA head :
             ParseOk(p, follows_primary(head.p.lexer, TRUE)))
      ELSE IF n.token.token_type = "LParen"
      THEN With(Method("parser_expression",
                       [p EXCEPT !.call_depth = IF @ > 0 THEN @ - 1 ELSE @,
                                 !.lexer = n.l]), LAMBDA expr :
           IF expr.err # "" THEN ParseErr(p, expr.err)
           ELSE With(expect(WithLexer(expr.p, skip_comments_and_new_lines(expr.p.lexer)),
                            "RParen"), LAMBDA closed :
                  IF closed.err # "" THEN ParseErr(p, closed.err)
                  ELSE ParseOk(p, follows_primary(closed.p.lexer, FALSE))))
      ELSE ParseOk(p, FALSE))

\* Parser::callee
callee(p) ==
    With(peek(p.lexer), LAMBDA token :
      IF token = "Ident" THEN Method("parser_path", p)
      ELSE IF token = "LParen" THEN Method("parser_primary", p)
      ELSE ParseErr(p, "UnexpectedTokenOneOf"))

\* the loop of Parser::call_simple
ArgsLoop(p, c, args) ==
    IF is_primary(peek_indented(p.lexer))
    THEN Try(Method("parser_primary", WithLexer(p, skip_comments_and_new_lines(p.lexer))),
             LAMBDA arg : ArgsLoop(arg.p, c, Append(args, arg.v)))
    ELSE ParseOk([p EXCEPT !.call_depth = @ - 1], CallOf(c, args))

\* Parser::call_simple
call_simple(p) ==
    Try(Method("callee", [p EXCEPT !.call_depth = @ + 1]), LAMBDA c :
      ArgsLoop(c.p, c.v, <<>>))

\* the loop of Parser::call: args.insert(0, call)
PipeLoop(p, indentation, made) ==
    With(next_checked_continued(p.lexer, "Pipe", indentation), LAMBDA n :
      IF n.token.token_type = "Pipe"
      THEN Try(Method("call_simple", WithLexer(p, n.l)), LAMBDA piped :
             PipeLoop(piped.p, indentation,
                      CallOf(piped.v.callee, <<made>> \o piped.v.args)))
      ELSE ParseOk(p, made))

\* Parser::call
parser_call(p) ==
    Try(Method("call_simple", p), LAMBDA first :
      PipeLoop(first.p, p.lexer.indentation, first.v))

\* the loop of the TokenType::LBracket arm of Parser::primary
ArrayLoop(p, arr) ==
    With(peek(p.lexer), LAMBDA token :
      IF token # "RBracket" /\ token # "Eos"
      THEN Try(Method("parser_primary", p), LAMBDA expr :
             ArrayLoop(WithLexer(expr.p, next_checked(expr.p.lexer, "Comma").l),
                       Append(arr, expr.v)))
      ELSE Try(expect(p, "RBracket"), LAMBDA closed : ParseOk(closed.p, ArrayOf(arr))))

\* the TokenType::LParen arm of Parser::primary: inside is the parser with
\* call_depth decremented if dec
parenthesised(p, dec, inside) ==
    With(Method("is_call", inside), LAMBDA calls :
      IF calls.err # "" THEN ParseErr(p, calls.err)
      ELSE With(lexer_next(inside.lexer).l, LAMBDA opened :
           Try(IF calls.v THEN Method("parser_call", WithLexer(inside, opened))
               ELSE Method("parser_expression",
                           WithLexer(inside, skip_comments_and_new_lines(opened))),
               LAMBDA expr :
                 With(expect([expr.p EXCEPT !.call_depth = IF dec THEN @ + 1 ELSE @],
                             "RParen"), LAMBDA closed :
                   IF closed.err # "" THEN ParseErr(expr.p, "UnexpectedToken")
                   ELSE ParseOk(closed.p, expr.v)))))

\* a unary operator applied to the primary that follows it
unary(p, operation) ==
    Try(Method("parser_primary", WithLexer(p, lexer_next(p.lexer).l)), LAMBDA operand :
      ParseOk(operand.p, UnaryOperation(operation, operand.v)))

\* the TokenType::Ident arm of Parser::primary
call_or_path(p) ==
    IF p.call_depth = 0
    THEN With(Method("is_call", p), LAMBDA calls :
           IF calls.err # "" THEN ParseErr(p, calls.err)
           ELSE IF calls.v THEN Method("parser_call", p) ELSE Method("parser_path", p))
    ELSE Method("parser_path", p)

\* Parser::primary
parser_primary(p) ==
    With(lexer_next(p.lexer), LAMBDA n :
    With(n.token.token_type, LAMBDA token :
    With(WithLexer(p, n.l), LAMBDA after :
      CASE token = "Unit" -> ParseOk(after, UnitLit)
        [] token = "Minus" -> unary(p, "Negate")
        [] token = "Not" -> unary(p, "Not")
        [] token = "Number" -> number(after, slice(p.lexer.source, n.token.span))
        [] token = "Function" -> Method("function_expression", p)
        [] token = "Ident" -> call_or_path(p)
        [] token = "LParen" ->
              parenthesised(p, p.call_depth > 0,
                            [p EXCEPT !.call_depth = IF @ > 0 THEN @ - 1 ELSE @])
        [] token = "LBracket" ->
              ArrayLoop(WithLexer(p, skip_comments_and_new_lines(n.l)), <<>>)
        [] token = "DoubleQuote" -> Method("parser_string", p)
        [] token = "True" -> ParseOk(after, BoolLit(TRUE))
        [] token = "False" -> ParseOk(after, BoolLit(FALSE))
        [] token = "If" -> Method("parser_if", after)
        [] OTHER -> ParseErr(p, "NotAPrimaryExpression"))))

\* the right-hand side of one turn of the loop of Parser::expression, the
\* operator consumed: p.primary()? on a clone and the operator after it decide
\* between expression and primary
operand(p, lhs, operation, previous_precedence) ==
    Try(Method("parser_primary", p), LAMBDA looked :
    With(operator(looked.p), LAMBDA next_operator :
      IF next_operator # "" /\ precedence(next_operator) > precedence(operation)
      THEN Try(Method("parser_expression", p), LAMBDA rhs :
             ExpressionLoop(rhs.p, Operation(operation, lhs, rhs.v),
                            previous_precedence + 1))
      ELSE ExpressionLoop(looked.p, Operation(operation, lhs, looked.v),
                          previous_precedence)))

\* the line break that may follow the operator in Parser::expression: l is
\* the lexer after the operator
continued(p, lhs, operation, previous_precedence, l) ==
    With(next_checked(l, "NewLine"), LAMBDA broken :
      IF broken.token.token_type = "NewLine"
      THEN With(skip_comments_and_new_lines(broken.l), LAMBDA l2 :
             IF peek_indentation(l2) <= l.indentation
             THEN ParseErr(WithLexer(p, l2), "InvalidIndentation")
             ELSE operand(WithLexer(p, l2), lhs, operation, previous_precedence))
      ELSE operand(WithLexer(p, l), lhs, operation, previous_precedence))

\* the loop of Parser::expression
ExpressionLoop(p, lhs, previous_precedence) ==
    With(operator(p), LAMBDA operation :
      IF operation = "" THEN ParseOk(p, lhs)
      ELSE IF precedence(operation) < previous_precedence THEN ParseOk(p, lhs)
      ELSE continued(p, lhs, operation, previous_precedence, next_indented(p.lexer).l))

\* Parser::expression
parser_expression(p) ==
    Try(Method("parser_primary", p), LAMBDA lhs : ExpressionLoop(lhs.p, lhs.v, 0))

\* Parser::function_args: the identifiers up to func_token
function_args(p, func_token, args) ==
    IF peek_indented(p.lexer) \notin {"None", func_token}
    THEN Try(expect_indented(p, "Ident"), LAMBDA named :
           function_args(named.p, func_token,
                         Append(args, slice(p.lexer.source, named.v.span))))
    ELSE ParseOk(p, args)

\* the checks of Parser::block on the statements it collected
block_checked(p, statements) ==
    IF /\ Len(statements) > 1
       /\ \E i \in 1..(Len(statements) - 2) :
            /\ statements[i].s = "expr"
            /\ ~(\/ statements[i].expression.e = "call"
                 \/ /\ statements[i].expression.e = "op"
                    /\ statements[i].expression.operation = "Assignment")
    THEN ParseErr(p, "FoundExpressionWhenStatementWasExpected")
    ELSE IF statements[Len(statements)].s # "expr"
    THEN ParseErr(p, "FoundStatementWhereExpressionWasExpected")
    ELSE ParseOk([p EXCEPT !.depth = @ - 1], Block(statements))

\* the loop of Parser::block_with_indentation and what follows it
BlockLoop(p, block_indentation, block) ==
    With(peek_indentation(p.lexer), LAMBDA indentation :
      IF indentation = block_indentation
      THEN Try(Method("parser_statement", p), LAMBDA statement :
             BlockLoop(statement.p, block_indentation, Append(block, statement.v)))
      ELSE IF indentation > block_indentation THEN ParseErr(p, "InvalidIndentation")
      ELSE IF block = <<>> THEN ParseErr(p, "ExpectedBlock")
      ELSE ParseOk(p, block))

\* Parser::block_with_indentation
block_with_indentation(p, indentation) ==
    With(peek_indentation(p.lexer), LAMBDA block_indentation :
      IF block_indentation < indentation THEN ParseErr(p, "InvalidIndentation")
      ELSE BlockLoop(p, block_indentation, <<>>))

\* Parser::block
parser_block(p) ==
    With([p EXCEPT !.depth = @ + 1], LAMBDA deeper :
    With(lexer_next(p.lexer), LAMBDA n :
      Try(IF n.token.token_type = "NewLine"
          THEN block_with_indentation(WithLexer(deeper, n.l), p.lexer.indentation)
          ELSE Try(Method("parser_statement", deeper), LAMBDA only :
                 ParseOk(only.p, << only.v >>)),
          LAMBDA statements : block_checked(statements.p, statements.v))))

\* Parser::function_statement
function_statement(p) ==
    Try(expect(p, "Ident"), LAMBDA named :
    With(next_checked(named.p.lexer, "Unit"), LAMBDA unit :
    Try(IF unit.token.token_type = "Unit" THEN ParseOk(WithLexer(named.p, unit.l), <<>>)
        ELSE function_args(named.p, "Assign", <<>>), LAMBDA args :
    Try(expect(args.p, "Assign"), LAMBDA assigned :
    Try(Method("parser_block", assigned.p), LAMBDA expr :
      ParseOk(expr.p,
              FunctionStmt(slice(p.lexer.source, named.v.span), args.v, expr.v)))))))

\* Parser::function_expression
function_expression(p) ==
    Try(function_args(expect(p, "Function").p, "ThinArrow", <<>>), LAMBDA args :
    Try(expect(args.p, "ThinArrow"), LAMBDA arrow :
    Try(Method("parser_block", arrow.p), LAMBDA expr :
      ParseOk(expr.p, Fn(args.v, expr.v)))))

\* Parser::let
parser_let(p) ==
    With(expect(p, "Let").p, LAMBDA after :
      IF peek_nth(after.lexer, 1) \in {"Ident", "Unit"}
      THEN Method("function_statement", after)
      ELSE Try(expect(after, "Ident"), LAMBDA named :
           With(next_checked(named.p.lexer, "Assign"), LAMBDA assigned :
             IF assigned.token.token_type # "Assign"
             THEN ParseOk(named.p, Let(slice(p.lexer.source, named.v.span), NoExpr))
             ELSE Try(Method("parser_expression", WithLexer(named.p, assigned.l)),
                      LAMBDA value :
                        ParseOk(value.p,
                                Let(slice(p.lexer.source, named.v.span), value.v))))))

\* the else part of Parser::if, the condition and the block parsed
else_part(p, if_indentation, condition, block) ==
    With(next_checked_continued(p.lexer, "Else", if_indentation), LAMBDA n :
      IF n.token.token_type # "Else" THEN ParseOk(p, If(condition, block, NoExpr))
      ELSE With(lexer_next(n.l), LAMBDA nested :
           Try(IF nested.token.token_type = "If"
               THEN Method("parser_if", WithLexer(p, nested.l))
               ELSE Method("parser_block", WithLexer(p, n.l)),
               LAMBDA else : ParseOk(else.p, If(condition, block, else.v)))))

\* Parser::if
parser_if(p) ==
    Try(Method("parser_expression", p), LAMBDA condition :
    Try(expect(condition.p, "Then"), LAMBDA then :
    Try(Method("parser_block", then.p), LAMBDA block :
      else_part(block.p, p.lexer.indentation, condition.v, block.v))))

\* one `{expr}` of Parser::string, the brace consumed
interpolated(p) ==
    With(peek(p.lexer), LAMBDA token :
      Try(IF token = "Ident" THEN Method("parser_path", p)
          ELSE IF token = "LParen" THEN Method("parser_primary", p)
          ELSE ParseErr(p, "UnexpectedTokenOneOf"), LAMBDA arg :
      Try(expect(arg.p, "RCurly"), LAMBDA closed : ParseOk(closed.p, arg.v))))

\* the text of Parser::string up to the next token: a brace that opens no
\* argument, and the brace that may close it, are dropped
text(p, l, args, offset, string) ==
    With(next_empty(l), LAMBDA token :
      StringLoop(WithLexer(p, token.l), args,
                 offset + (token.token.span[2] - token.token.span[1]),
                 string \o slice(p.lexer.source, token.token.span)))

\* the loop of Parser::string and what follows it
StringLoop(p, args, offset, string) ==
    With(peek_empty(p.lexer), LAMBDA first :
      IF first \notin {"DoubleQuote", "Eos"}
      THEN IF peek(p.lexer) = "Eos" THEN ParseErr(p, "EarlyEos")
           ELSE IF first = "LCurly" /\ peek_nth(p.lexer, 1) # "LCurly"
           THEN Try(interpolated(WithLexer(p, lexer_next(p.lexer).l)), LAMBDA arg :
                  StringLoop(arg.p, Append(args, InterpolatedArgument(offset, arg.v)),
                             0, string))
           ELSE text(p, next_checked_empty(next_checked_empty(p.lexer, "LCurly").l,
                                           "RCurly").l,
                     args, offset, string)
      ELSE Try(expect(p, "DoubleQuote"), LAMBDA closed :
             ParseOk(closed.p,
                     IF args = <<>> THEN StringLit(string)
                     ELSE InterpolatedString(string, args))))

\* Parser::string
parser_string(p) ==
    Try(expect(p, "DoubleQuote"), LAMBDA opened : StringLoop(opened.p, <<>>, 0, <<>>))

\* the TokenType::Import arm of Parser::statement, the keyword consumed
import_statement(p) ==
    IF peek(p.lexer) # "DoubleQuote" THEN ParseErr(p, "NotImplemented")
    ELSE Try(Method("parser_string", p), LAMBDA string :
           IF string.v.e = "interpolated" THEN ParseErr(string.p, "UnexpectedExpression")
           ELSE ParseOk(string.p, Import(string.v.s)))

\* an expression is a statement at every depth
statement_of_any_depth(p, started, n) ==
    With(n.token.token_type, LAMBDA token :
      CASE token = "Let" -> Method("parser_let", started)
        [] token = "From" -> ParseErr(started, "NotImplemented")
        [] token = "Import" -> import_statement(WithLexer(started, n.l))
        [] token = "Eos" -> ParseErr(started, "EndOfSource")
        [] token = "Unknown" -> ParseErr(started, "UnknownToken")
        [] OTHER ->
              Try(Method("parser_expression", started), LAMBDA expr :
                ParseOk(expr.p, ExprStmt(expr.v))))

\* the match of Parser::statement on the token n that starts it
statement_of(p, started, n) ==
    With(n.token.token_type, LAMBDA token :
      CASE token = "Let" -> Method("parser_let", started)
        [] token = "From" -> ParseErr(started, "NotImplemented")
        [] token = "Import" -> import_statement(WithLexer(started, n.l))
        [] token = "Eos" -> ParseErr(started, "EndOfSource")
        [] token = "Unknown" -> ParseErr(started, "UnknownToken")
        [] OTHER ->
              IF p.depth = 0 THEN ParseErr(started, "TopLevelExpressionNotAllowed")
              ELSE Try(Method("parser_expression", started), LAMBDA expr :
                     ParseOk(expr.p, ExprStmt(expr.v))))

\* Parser::statement
parser_statement(p) ==
    With(skip_comments_and_new_lines(p.lexer), LAMBDA l :
      statement_of(p, [p EXCEPT !.lexer = l, !.last_expr_start_position = l.position,
                                !.last_expr_line = l.line],
                   lexer_next(l)))

\* the method of the parser that a call names
Method(name, p) ==
    CASE name = "parser_expression" -> parser_expression(p)
      [] name = "parser_primary" -> parser_primary(p)
      [] name = "parser_path" -> parser_path(p)
      [] name = "is_call" -> is_call(p)
      [] name = "parser_call" -> parser_call(p)
      [] name = "call_simple" -> call_simple(p)
      [] name = "callee" -> callee(p)
      [] name = "parser_statement" -> parser_statement(p)
      [] name = "parser_block" -> parser_block(p)
      [] name = "function_expression" -> function_expression(p)
      [] name = "parser_if" -> parser_if(p)
      [] name = "parser_string" -> parser_string(p)
      [] name = "parser_let" -> parser_let(p)
      [] name = "function_statement" -> function_statement(p)

\* Parser::parse
parse(p) ==
    Try(Method("parser_statement", p), LAMBDA statement :
    With(next_checked(statement.p.lexer, "NewLine"), LAMBDA line :
    With(next_checked(statement.p.lexer, "Eos"), LAMBDA eos :
      IF line.token.token_type = "NewLine"
      THEN ParseOk(WithLexer(statement.p, line.l), statement.v)
      ELSE IF eos.token.token_type = "Eos"
      THEN ParseOk(WithLexer(statement.p, eos.l), statement.v)
      ELSE ParseErr(statement.p, "UnexpectedToken"))))

(***************************************************************************)
(* Parsing sources.  A source is described by the pieces it is written     *)
(* from, so that a property can say what its parse should be; the parser   *)
(* sees only the characters.  Expressions stand after `let x =`, since a   *)
(* statement at depth 0 may not be an expression.                          *)
(***************************************************************************)
MaxOperators == 3

LetX == <<"l", "e", "t", " ", "x", " ", "=", " ">>

RECURSIVE Spaces(_)
Spaces(n) == IF n = 0 THEN <<>> ELSE <<" ">> \o Spaces(n - 1)

\* the characters the lexer reads as the operator
Symbol(operation) ==
    CASE operation = "Assignment" -> <<"=">>
      [] operation = "Equal" -> <<"=", "=">>
      [] operation = "Less" -> <<"<">>
      [] operation = "And" -> <<"a", "n", "d">>
      [] operation = "Add" -> <<"+">>
      [] operation = "Subtract" -> <<"-">>
      [] operation = "Multiply" -> <<"*">>
      [] operation = "IDivide" -> <<"/", "/">>

\* operand, operator, operand, ...: with indented, every operator after the
\* first stands at the start of a line indented deeper than the one before
RECURSIVE Chain(_, _, _, _)
Chain(operands, operators, indented, i) ==
    IF i > Len(operators) THEN <<>>
    ELSE (IF indented /\ i > 1 THEN <<"\n">> \o Spaces(2 * (i - 1)) ELSE <<" ">>)
            \o Symbol(operators[i]) \o <<" ">> \o operands[i + 1]
            \o Chain(operands, operators, indented, i + 1)

OperationSource(operands, operators, indented) ==
    [family |-> "operation", operands |-> operands, operators |-> operators,
     indented |-> indented,
     source |-> LetX \o operands[1] \o Chain(operands, operators, indented, 1)]

OperationSources ==
    { OperationSource(<<<<"2">>, <<"3">>, <<"4">>, <<"5">>, <<"6">>>>, ops, indented) :
        ops \in UNION { [1..n -> {"Add", "Subtract", "Multiply", "IDivide", "Equal"}] :
                          n \in 1..MaxOperators },
        indented \in BOOLEAN }
      \cup { OperationSource(<<<<"a">>, <<"1">>, <<"1">>, <<"b">>>>, ops, FALSE) :
               ops \in { <<"Assignment">>, <<"Assignment", "Add">>, <<"Subtract">>,
                         <<"Assignment", "Multiply", "Add">>, <<"And", "Less">>,
                         <<"Less", "And">> } }

\* what may stand after an identifier; primary says whether its first token,
\* on the same logical line, is a primary token other than `-`
Follows ==
    { [chars |-> <<"(", ")">>, primary |-> TRUE],
      [chars |-> <<"1">>, primary |-> TRUE],
      [chars |-> <<"b">>, primary |-> TRUE],
      [chars |-> <<"\"", "s", "\"">>, primary |-> TRUE],
      [chars |-> <<"(", "1", ")">>, primary |-> TRUE],
      [chars |-> <<"[", "1", "]">>, primary |-> TRUE],
      [chars |-> <<"t", "r", "u", "e">>, primary |-> TRUE],
      [chars |-> <<"n", "o", "t", " ", "b">>, primary |-> TRUE],
      [chars |-> <<"\n", " ", " ", "1">>, primary |-> TRUE],
      [chars |-> <<"-", " ", "1">>, primary |-> FALSE],
      [chars |-> <<"+", " ", "1">>, primary |-> FALSE],
      [chars |-> <<>>, primary |-> FALSE],
      [chars |-> <<"\n", "1">>, primary |-> FALSE],
      [chars |-> <<"*", " ", "2">>, primary |-> FALSE] }

Heads ==
    { [chars |-> <<"f">>, path |-> Name(<<"f">>)],
      [chars |-> <<"s", "o", "m", "e", ".", "f", "u", "n", "c", "t", "i", "o", "n">>,
       path |-> PathOf(<<"s", "o", "m", "e">>, <<PartIdent(<<"f", "u", "n", "c", "t", "i", "o", "n">>)>>)] }

\* an identifier and what follows it, as the value of the let, as the first
\* argument of a call of g, or in parentheses as that argument
CallSource(head, follow, context) ==
    [family |-> "call", head |-> head, follow |-> follow, context |-> context,
     source |-> LetX
                \o (CASE context = "value" -> <<>>
                      [] context = "argument" -> <<"g", " ">>
                      [] context = "parenthesised" -> <<"g", " ", "(">>)
                \o head.chars
                \o (IF follow.chars = <<>> \/ follow.chars[1] = "\n" THEN <<>> ELSE <<" ">>)
                \o follow.chars
                \o (IF context = "parenthesised" THEN <<")">> ELSE <<>>)]

CallSources ==
    { CallSource(head, follow, context) :
        head \in Heads, follow \in Follows,
        context \in {"value", "argument", "parenthesised"} }
      \ { CallSource(head, [chars |-> <<"\n", "1">>, primary |-> FALSE], "parenthesised") :
            head \in Heads }

\* the left-hand sides of a pipe
PipeHeads ==
    { [chars |-> <<"a">>, expr |-> Name(<<"a">>)],
      [chars |-> <<"1">>, expr |-> IntLit(1)],
      [chars |-> <<"g", " ", "y">>, expr |-> CallOf(Name(<<"g">>), <<Name(<<"y">>)>>)],
      [chars |-> <<"g", " ", "(", ")">>, expr |-> CallOf(Name(<<"g">>), <<UnitLit>>)] }

\* lhs |> f b c, and lhs |> f b c |> h d with two stages; with broken every
\* |> starts a line of the indentation of the first
PipeSource(head, stages, broken) ==
    [family |-> "pipe", head |-> head, stages |-> stages, broken |-> broken,
     source |-> LetX \o head.chars
                \o (IF broken THEN <<"\n">> ELSE <<" ">>)
                \o <<"|", ">", " ", "f", " ", "b", " ", "c">>
                \o (IF stages = 1 THEN <<>>
                    ELSE (IF broken THEN <<"\n">> ELSE <<" ">>)
                            \o <<"|", ">", " ", "h", " ", "d">>)]

PipeSources ==
    { PipeSource(head, stages, broken) :
        head \in PipeHeads, stages \in 1..2, broken \in BOOLEAN }

\* a source whose first statement, at depth 0, starts as start says
TopSource(start, source) == [family |-> "top", start |-> start, source |-> source]

TopSources ==
    { TopSource("let", <<"l", "e", "t", " ", "a">>),
      TopSource("let", <<"l", "e", "t", " ", "x", " ", "=", " ", "1">>),
      TopSource("let", <<"l", "e", "t", " ", "f", " ", "a", " ", "=", " ", "a">>),
      TopSource("let", <<"l", "e", "t", " ", "f", " ", "(", ")", " ", "=", " ", "1">>),
      TopSource("let", <<"\n", "\n", "l", "e", "t", " ", "x", " ", "=", " ", "f", " ", "1">>),
      TopSource("let", <<"#", " ", "c", "\n", "l", "e", "t", " ", "x", " ", "=", " ", "1">>),
      TopSource("import", <<"i", "m", "p", "o", "r", "t", " ", "\"", "l", "i", "b", "\"">>),
      TopSource("import", <<"\n", "i", "m", "p", "o", "r", "t", " ", "\"", "l", "i", "b", "\"", "\n", "l", "e", "t", " ", "x", " ", "=", " ", "1">>),
      TopSource("expression", <<"2", " ", "+", " ", "3", " ", "*", " ", "4">>),
      TopSource("expression", <<"a">>),
      TopSource("expression", <<"\n", " ", " ", "a", " ", "+", " ", "1">>),
      TopSource("assignment", <<"a", " ", "=", " ", "1", " ", "+", " ", "1">>),
      TopSource("assignment", <<"a", ".", "b", " ", "=", " ", "1">>),
      TopSource("call", <<"s", "o", "m", "e", ".", "f", "u", "n", "c", "t", "i", "o", "n", " ", "(", ")">>),
      TopSource("call", <<"f", " ", "a", " ", "b">>),
      TopSource("expression", <<"\"", "s", "\"">>),
      TopSource("expression", <<"(", "1", ")">>),
      TopSource("expression", <<"i", "f", " ", "a", " ", "t", "h", "e", "n", " ", "1", " ", "e", "l", "s", "e", " ", "2">>),
      TopSource("expression", <<"f", "n", " ", "a", " ", "-", ">", " ", "a">>),
      TopSource("expression", <<"(", ")">>),
      TopSource("expression", <<"-", "1">>),
      TopSource("expression", <<"n", "o", "t", " ", "a">>),
      TopSource("expression", <<"[", "1", ",", " ", "2", "]">>),
      TopSource("expression", <<"t", "r", "u", "e">>),
      TopSource("expression", <<"t", "h", "e", "n">>),
      TopSource("expression", <<")", " ", "1">>),
      TopSource("expression", <<"=", " ", "1">>),
      TopSource("from", <<"f", "r", "o", "m", " ", "\"", "l", "i", "b", "\"", " ", "i", "m", "p", "o", "r", "t", " ", "a">>),
      TopSource("from", <<"f", "r", "o", "m">>),
      TopSource("unknown", <<"@">>),
      TopSource("unknown", <<"$", " ", "a", " ", "=", " ", "1">>),
      TopSource("unknown", <<"\n", "?", " ", "1">>) }

(***************************************************************************)
(* Interpolated strings: the literal as Parser::string reads it, the table *)
(* its compiled code builds at run time, and the formatter over that table *)
(***************************************************************************)
MaxArguments == 2

Str(chars) == [t |-> "string", v |-> chars]
ArrayValue(items) == [t |-> "array", v |-> items]
\* a table is its entries in insertion order; id stands for the address of its Rc
TableValue(id, entries) == [t |-> "table", v |-> entries, id |-> id]
NoValue == [t |-> "none", v |-> 0]

\* Hash and PartialEq of Value as a key: tables are hashed by address
SameKey(a, b) == a.t = b.t /\ (IF a.t = "table" THEN a.id = b.id ELSE a.v = b.v)

\* HashMap::insert
table_insert(entries, key, value) ==
    IF \E i \in 1..Len(entries) : SameKey(entries[i].key, key)
    THEN [i \in 1..Len(entries) |->
            IF SameKey(entries[i].key, key) THEN [key |-> entries[i].key, value |-> value]
            ELSE entries[i]]
    ELSE Append(entries, [key |-> key, value |-> value])

\* HashMap::get: NoValue is None
table_get(entries, key) ==
    IF \E i \in 1..Len(entries) : SameKey(entries[i].key, key)
    THEN entries[CHOOSE i \in 1..Len(entries) : SameKey(entries[i].key, key)].value
    ELSE NoValue

\* the OpCode::CreateList arm over a stack of values: <<>> is the panic of
\* a pop from an empty stack
create_list(values, size) ==
    IF Len(values) < size THEN <<>>
    ELSE Append(SubSeq(values, 1, Len(values) - size),
                ArrayValue(SubSeq(values, Len(values) - size + 1, Len(values))))

\* the OpCode::CreateTable arm over a stack of values
RECURSIVE create_table(_, _, _, _)
create_table(values, size, id, entries) ==
    IF size = 0 THEN Append(values, TableValue(id, entries))
    ELSE IF Len(values) < 2 THEN <<>>
    ELSE create_table(SubSeq(values, 1, Len(values) - 2), size - 1, id,
                      table_insert(entries, values[Len(values) - 1], values[Len(values)]))

FormatKey == Str(<<"f", "o", "r", "m", "a", "t">>)
ArgsKey == Str(<<"a", "r", "g", "s">>)
ArgKey == Str(<<"a", "r", "g">>)
OffsetKey == Str(<<"o", "f", "f", "s", "e", "t">>)

\* the variables the literals name
Variable(ident) ==
    CASE ident = <<"a">> -> Str(<<"A", "B">>)
      [] ident = <<"n">> -> VInt(42)
      [] OTHER -> VUnit

\* the value the compiled argument expression pushes
Evaluate(x) ==
    CASE x.e = "path" -> Variable(x.ident)
      [] x.e = "int" -> VInt(x.n)
      [] OTHER -> VUnit

\* `arguments.len() as u8`, the operand of the CreateList of the literal
CreateListOperand(arguments) == Len(arguments) % (U8Max + 1)

\* the values on the stack after the code of Expression::InterpolatedString
\* up to its CreateList: each argument has left its table of two entries
interpolated_stack(x) ==
    <<FormatKey, Str(x.format), ArgsKey>>
      \o [i \in 1..Len(x.arguments) |->
            create_table(<<ArgKey, Evaluate(x.arguments[i].expression),
                           OffsetKey, VInt(x.arguments[i].offset)>>, 2, i, <<>>)[1]]

\* the table the code of the literal leaves on top of the stack: NoValue
\* when the stack ran out
interpolated_table(x) ==
    With(create_list(interpolated_stack(x), CreateListOperand(x.arguments)), LAMBDA listed :
      IF listed = <<>> THEN NoValue
      ELSE With(create_table(listed, 2, 0, <<>>), LAMBDA made :
             IF made = <<>> THEN NoValue ELSE made[Len(made)]))

Digit(d) == <<"0", "1", "2", "3", "4", "5", "6", "7", "8", "9">>[d + 1]

RECURSIVE Decimal(_)
Decimal(n) ==
    IF n < 0 THEN <<"-">> \o Decimal(-n)
    ELSE IF n < 10 THEN <<Digit(n)>>
    ELSE Append(Decimal(n \div 10), Digit(n % 10))

\* Display of Value
to_string(value) ==
    CASE value.t = "string" -> value.v
      [] value.t = "int" -> Decimal(value.v)
      [] value.t = "bool" -> IF value.v = 1 THEN <<"t", "r", "u", "e">>
                             ELSE <<"f", "a", "l", "s", "e">>
      [] OTHER -> <<"(", ")">>

\* String::insert_str
insert_str(string, idx, chars) ==
    SubSeq(string, 1, idx) \o chars \o SubSeq(string, idx + 1, Len(string))

Formatted(chars) == [text |-> chars, panicked |-> FALSE]
FormatPanic == [text |-> <<>>, panicked |-> TRUE]

\* the loop of format_to_string
RECURSIVE FormatLoop(_, _, _, _)
FormatLoop(format, args, i, offset) ==
    IF i > Len(args) THEN Formatted(format)
    ELSE IF args[i].t # "table" THEN FormatPanic
    ELSE With(table_get(args[i].v, ArgKey), LAMBDA arg :
         With(table_get(args[i].v, OffsetKey), LAMBDA position :
           IF arg.t = "none" \/ position.t # "int" THEN FormatPanic
           ELSE IF offset + position.v > Len(format) THEN FormatPanic
           ELSE FormatLoop(insert_str(format, offset + position.v, to_string(arg)), args,
                           i + 1, offset + Len(to_string(arg)) + position.v)))

\* format_to_string: its unwraps panic
format_to_string(args) ==
    IF args.t # "table" THEN FormatPanic
    ELSE With(table_get(args.v, FormatKey), LAMBDA format :
         With(table_get(args.v, ArgsKey), LAMBDA list :
           IF format.t # "string" \/ list.t # "array" THEN FormatPanic
           ELSE FormatLoop(format.v, list.v, 1, 0)))

\* the literal texts and the arguments the string sources are made of, each
\* argument with the rendering of its value
Texts == { <<>>, <<"x">>, <<" ", "y", ".">> }
Arguments ==
    { [chars |-> <<"a">>, rendering |-> <<"A", "B">>],
      [chars |-> <<"n">>, rendering |-> <<"4", "2">>],
      [chars |-> <<"(", "7", ")">>, rendering |-> <<"7">>] }

InBraces(arg) == <<"{">> \o arg.chars \o <<"}">>

\* texts[1] args[1] texts[2] ... args[n] texts[n + 1] from piece i on, each
\* argument in its braces, or its rendering if rendered
RECURSIVE Interleaved(_, _, _, _)
Interleaved(texts, args, i, rendered) ==
    IF i > Len(args) THEN texts[i]
    ELSE texts[i] \o (IF rendered THEN args[i].rendering ELSE InBraces(args[i]))
           \o Interleaved(texts, args, i + 1, rendered)

StringSource(texts, args) ==
    [family |-> "string",
     source |-> LetX \o <<"\"">> \o Interleaved(texts, args, 1, FALSE) \o <<"\"">>,
     expected |-> Interleaved(texts, args, 1, TRUE)]

StringSources ==
    { StringSource(texts, args) :
        <<texts, args>> \in UNION { [1..n + 1 -> Texts] \X [1..n -> Arguments] :
                                      n \in 1..MaxArguments } }

\* the literal of n arguments {a} and no text, as Parser::string reads it
Repeated(n) ==
    InterpolatedString(<<>>, [i \in 1..n |-> InterpolatedArgument(0, PathOf(<<"a">>, <<>>))])

\* the literal of one argument more than a u8 counts
LongSource ==
    [family |-> "long",
     source |-> LetX \o <<"\"">>
                  \o [i \in 1..3 * (U8Max + 1) |-> <<"{", "a", "}">>[((i - 1) % 3) + 1]]
                  \o <<"\"">>,
     expected |-> [i \in 1..2 * (U8Max + 1) |-> <<"A", "B">>[((i - 1) % 2) + 1]]]

MaxStatements == 3

\* the statements of a block by kind: a let, a plain expression, a call and
\* an assignment
StatementKinds == {"let", "int", "call", "assign"}

StatementText(kind) ==
    CASE kind = "let" -> LetX \o <<"1">>
      [] kind = "int" -> <<"1">>
      [] kind = "call" -> <<"g", " ", "1">>
      [] OTHER -> <<"a", " ", "=", " ", "1">>

\* the lines from i on, each on a line of its own behind its indentation
RECURSIVE LinesFrom(_, _)
LinesFrom(lines, i) ==
    IF i > Len(lines) THEN <<>>
    ELSE <<"\n">> \o Spaces(lines[i].indent) \o StatementText(lines[i].kind)
           \o LinesFrom(lines, i + 1)

\* let f () = followed by the lines; at a level above 0 the function stands
\* at that indentation in the block of let h () =, which ends with the
\* expression 0 at that indentation
BlockSource(check, level, lines) ==
    [family |-> "block", check |-> check, level |-> level, lines |-> lines,
     source |-> (IF level = 0 THEN <<>>
                 ELSE <<"l", "e", "t", " ", "h", " ", "(", ")", " ", "=", "\n">> \o Spaces(level))
                \o <<"l", "e", "t", " ", "f", " ", "(", ")", " ", "=">>
                \o LinesFrom(lines, 1)
                \o (IF level = 0 THEN <<>> ELSE <<"\n">> \o Spaces(level) \o <<"0">>)]

\* blocks of two statements and more, of every kind, at one indentation
KindSources ==
    { BlockSource("kinds", 0, [i \in 1..Len(kinds) |-> [indent |-> 2, kind |-> kinds[i]]]) :
        kinds \in UNION { [1..n -> StatementKinds] : n \in 2..MaxStatements } }

\* blocks of assignments, each at an indentation of its own, under a
\* function at indentation 0 or 2
IndentSources ==
    { BlockSource("indents", level,
                  [i \in 1..Len(indents) |-> [indent |-> indents[i], kind |-> "assign"]]) :
        level \in {0, 2},
        indents \in UNION { [1..n -> {0, 2, 4, 6}] : n \in 1..MaxStatements } }

BlockSources == KindSources \cup IndentSources

Sources ==
    OperationSources \cup CallSources \cup PipeSources \cup TopSources \cup StringSources
      \cup {LongSource} \cup BlockSources

ParserInit ==
    /\ NoVm
    /\ \E input \in Sources :
          /\ object = Parser(input.source)
          /\ outcome = [called |-> FALSE, calls |-> 0, input |-> input, v |-> <<>>,
                       err |-> "", formatted |-> FALSE, text |-> <<>>,
                       panicked |-> FALSE]

\* Parser::parse, called until it fails; the long source is not read
\* character by character
Parse ==
    /\ outcome.err = ""
    /\ outcome.input.family # "long"
    /\ With(parse(object), LAMBDA r :
          /\ object' = r.p
          /\ outcome' = [outcome EXCEPT !.called = TRUE, !.calls = @ + 1, !.v = r.v,
                                        !.err = r.err])
    /\ UNCHANGED VmVars

\* the literal a parsed source binds: the one Parser::string returned, and
\* for the long source the one it builds for that many arguments
Literal ==
    IF outcome.input.family = "long" THEN Repeated(U8Max + 1) ELSE outcome.v.value

\* the code of the literal runs and format_to_string is given its table
Format ==
    /\ ~outcome.formatted
    /\ \/ outcome.input.family = "long"
       \/ /\ outcome.input.family = "string"
          /\ outcome.calls = 1
          /\ outcome.err = ""
          /\ outcome.v.value.e = "interpolated"
    /\ With(format_to_string(interpolated_table(Literal)), LAMBDA r :
          outcome' = [outcome EXCEPT !.formatted = TRUE, !.text = r.text,
                                     !.panicked = r.panicked])
    /\ UNCHANGED object
    /\ UNCHANGED VmVars

ParserNext == Parse \/ Format

ParserSpec == ParserInit /\ [][ParserNext]_vars

\* the first statement of a source of the family was asked for
Parsed(family) == outcome.calls = 1 /\ outcome.input.family = family

\* the operand alone, as Parser::primary reads it
Leaf(chars) == Method("parser_primary", Parser(chars)).v

\* the tree of a chain in which a higher precedence binds tighter and equal
\* precedence groups to the left: it splits at the last operator of the
\* lowest precedence
RECURSIVE Grouped(_, _)
Grouped(operands, operators) ==
    IF operators = <<>> THEN Leaf(operands[1])
    ELSE LET k == CHOOSE i \in 1..Len(operators) :
                    /\ \A j \in 1..Len(operators) :
                          precedence(operators[i]) <= precedence(operators[j])
                    /\ \A j \in (i + 1)..Len(operators) :
                          precedence(operators[i]) < precedence(operators[j])
         IN  Operation(operators[k],
                       Grouped(SubSeq(operands, 1, k), SubSeq(operators, 1, k - 1)),
                       Grouped(SubSeq(operands, k + 1, Len(operands)),
                               SubSeq(operators, k + 1, Len(operators))))

\* C21: a chain of binary operators parses to the tree in which an operator of
\* higher precedence binds tighter and operators of equal precedence group to
\* the left, also with a higher-precedence operation between them and also
\* when the chain continues over indented lines.
C21_PrecedenceGrouping ==
    Parsed("operation") =>
        /\ outcome.err = ""
        /\ outcome.v = Let(<<"x">>,
                           Grouped(SubSeq(outcome.input.operands, 1,
                                          Len(outcome.input.operators) + 1),
                                   outcome.input.operators))

\* the expression a binary operation starts with, or the expression itself
Leftmost(expr) == IF expr.e = "op" THEN expr.lhs ELSE expr

\* the expression the identifier of a source of the family "call" starts:
\* the value of the let or the first argument of g
HeadExpr ==
    IF outcome.input.context = "value" THEN outcome.v.value
    ELSE Leftmost(outcome.v.value).args[1]

\* what the identifier was parsed to
HeadNode == Leftmost(HeadExpr)

\* the identifier was parsed as a call exactly when a primary token other
\* than `-` follows it, and as its plain path otherwise
CallIffPrimary ==
    /\ HeadNode.e = "call" <=> outcome.input.follow.primary
    /\ HeadNode.e = "call" => HeadNode.callee = outcome.input.head.path
    /\ HeadNode.e # "call" => HeadNode = outcome.input.head.path
    /\ outcome.input.follow.chars = <<"(", ")">> =>
          HeadNode = CallOf(outcome.input.head.path, <<UnitLit>>)
    /\ outcome.input.follow.chars = <<"-", " ", "1">> =>
          HeadExpr = Operation("Subtract", outcome.input.head.path, IntLit(1))

RECURSIVE Piped(_, _)
Piped(lhs, stages) ==
    IF stages = 1
    THEN CallOf(Name(<<"f">>), <<lhs, Name(<<"b">>), Name(<<"c">>)>>)
    ELSE CallOf(Name(<<"h">>), <<Piped(lhs, 1), Name(<<"d">>)>>)

\* C23: `lhs |> f b c` parses to the call of f with the arguments lhs, b, c,
\* and a chain of pipes nests left to right, whatever the left-hand side is: a
\* plain identifier, a literal or a call.
C23_PipeInsertsFirstArgument ==
    Parsed("pipe") =>
        /\ outcome.err = ""
        /\ outcome.v = Let(<<"x">>, Piped(outcome.input.head.expr, outcome.input.stages))

\* a let or an import was accepted
Accepted ==
    /\ outcome.err = ""
    /\ outcome.input.start = "let" => outcome.v.s \in {"let", "function"}
    /\ outcome.input.start = "import" => outcome.v = Import(<<"l", "i", "b">>)

RepeatedParse ==
    \A n \in 1..MaxArguments :
        Parsed("string")
          /\ outcome.input = StringSource([i \in 1..n + 1 |-> <<>>],
                                          [i \in 1..n |-> [chars |-> <<"a">>,
                                                           rendering |-> <<"A", "B">>]])
          => outcome.err = "" /\ outcome.v.value = Repeated(n)

\* the round trip holds of the literals that were read character by character
FormatsShortLiterals ==
    outcome.formatted /\ outcome.input.family = "string"
      => ~outcome.panicked /\ outcome.text = outcome.input.expected

\* C24: whatever the number of {expr} arguments of a literal and the text
\* around them, the formatter returns the text with the rendering of each
\* argument where its {expr} stood
C24_FormatRoundTrip ==
    outcome.formatted => ~outcome.panicked /\ outcome.text = outcome.input.expected

(***************************************************************************)
(* The emission of code, one call of the compiler's emitters at a time:    *)
(* object is the compiler, outcome.pending the jumps emitted and not yet   *)
(* patched, each with the state it was emitted in                          *)
(***************************************************************************)
MaxCode == 5
MaxStates == 2
MaxLine == 2

Emitted == { Op("LoadUnit", 0), Op("Pop", 0) }

\* the opcodes of the states from i on, counted
RECURSIVE CodeFrom(_, _)
CodeFrom(c, i) ==
    IF i > Len(c.states) THEN 0 ELSE Len(c.states[i].code) + CodeFrom(c, i + 1)

EmitInit ==
    /\ NoVm
    /\ object = Compiler(<<>>)
    /\ outcome = [called |-> FALSE, pending |-> {}, patched |-> 0]

\* Compiler::statement stores the line of the statement it compiles
NextLine ==
    /\ object.line_no < MaxLine
    /\ object' = [object EXCEPT !.line_no = @ + 1]
    /\ UNCHANGED outcome
    /\ UNCHANGED VmVars

EmitCode ==
    /\ CodeFrom(object, 1) < MaxCode
    /\ \E o \in Emitted : object' = emit_code(object, o)
    /\ outcome' = [outcome EXCEPT !.called = TRUE]
    /\ UNCHANGED VmVars

EmitJump ==
    /\ CodeFrom(object, 1) + 2 <= MaxCode
    /\ \E name \in {"Jump", "JumpIfFalse"} : object' = emit_jump(object, name)
    /\ outcome' = [outcome EXCEPT !.called = TRUE,
                                  !.pending = @ \cup {[state |-> object.state,
                                                       index |-> Len(Cur(object).code)]}]
    /\ UNCHANGED VmVars

\* a jump of the current state is patched: the jumps of an if are not
\* patched in the order they were emitted
PatchJump ==
    /\ \E jump \in outcome.pending :
          /\ jump.state = object.state
          /\ object' = patch_jump(object, jump.index)
          /\ outcome' = [outcome EXCEPT !.pending = @ \ {jump}, !.patched = @ + 1]
    /\ UNCHANGED VmVars

\* the start of Compiler::function
EnterFunction ==
    /\ Len(object.states) < MaxStates
    /\ object' = enter_state(object, "f", FALSE)
    /\ UNCHANGED outcome
    /\ UNCHANGED VmVars

\* the end of Compiler::function: Return, back to the parent, Closure
LeaveFunction ==
    /\ Cur(object).parent # 0
    /\ CodeFrom(object, 1) + 2 <= MaxCode
    /\ \A jump \in outcome.pending : jump.state # object.state
    /\ object' = emit_code(leave_state(emit_code(object, Op("Return", 0))),
                           Op("Closure", (Len(object.states[Cur(object).parent].defined_states) - 1)
                                           % (U8Max + 1)))
    /\ outcome' = [outcome EXCEPT !.called = TRUE]
    /\ UNCHANGED VmVars

EmitNext == NextLine \/ EmitCode \/ EmitJump \/ PatchJump \/ EnterFunction \/ LeaveFunction

EmitSpec == EmitInit /\ [][EmitNext]_vars

\* C25: after any sequence of emissions, jump placeholders and jump patches
\* every prototype has as many line numbers as opcodes
C25_LinesMatchCode ==
    \A i \in 1..Len(object.states) :
        Len(object.states[i].code) = Len(object.states[i].lines)

\* a jump was patched in a function whose parent has emitted code too
C25_Witness ==
    /\ outcome.patched > 0
    /\ Len(object.states) = MaxStates
    /\ \A i \in 1..Len(object.states) : Len(object.states[i].code) >= 1
    /\ \E i \in 1..Len(object.states) :
          \E k \in 1..Len(object.states[i].code) :
              object.states[i].code[k].op = "JumpIfFalse"

\* the cells of the open list
Listed(list) == { list[i] : i \in 1..Len(list) }

\* the step is the execution of a CloseUpvalue opcode
ClosesUpvalues == Dispatch("CloseUpvalue") /\ last'.op = "CloseUpvalue"

\* C27: CloseUpvalue(k) closes every Open cell of the list whose slot is at
\* least slot_offset + k, each then Closed with the value of its stack slot and
\* out of the list, and leaves every Open cell of a lower slot as it was and
\* in the list, whatever the order of capture
C27_CloseUpvalueByThreshold ==
    [][ClosesUpvalues =>
          \A id \in Listed(open_upvalues) :
              IF cells[id].slot >= frame(Machine).slot_offset + Fetched.a
              THEN /\ status' = "run"
                   /\ cells'[id] = Closed(stack[cells[id].slot + 1])
                   /\ id \notin Listed(open_upvalues')
              ELSE /\ cells'[id] = cells[id]
                   /\ id \in Listed(open_upvalues')]_vars

\* the program is the if whose then-branch is longer than 255 opcodes
IsLongIf == Programs[prog] = LongIfProgram

\* the opcodes of the then-branch and of the Jump and ExtraArg that end it
ThenDistance == 2 ^ (SumDepth + 1) - 1 + 2

\* the JumpIfFalse of the long if has just popped its falsy condition
LongJumpTaken ==
    /\ IsLongIf
    /\ status = "run"
    /\ InMain
    /\ last.op = "JumpIfFalse"
    /\ is_false(last.stack[Len(last.stack)])

\* C28: the distance of a jump over more than 255 opcodes is stored as its
\* low byte in JumpIfFalse and its high byte in the ExtraArg after it, and
\* the jump, when taken, advances ip by the whole distance
C28_LongJumpAdvancesByDistance ==
    LongJumpTaken =>
        /\ ThenDistance >= U8Max + 1
        /\ last.a = ThenDistance % (U8Max + 1)
        /\ LastFunction.code[last.pc + 1] = Op("ExtraArg", ThenDistance \div (U8Max + 1))
        /\ frame(Machine).ip = last.pc + ThenDistance

\* the distance is stored as the claim says
LongJumpEncoded ==
    LongJumpTaken =>
        /\ last.a = ThenDistance % (U8Max + 1)
        /\ LastFunction.code[last.pc + 1] = Op("ExtraArg", ThenDistance \div (U8Max + 1))
        /\ frame(Machine).ip = last.pc + last.a

(***************************************************************************)
(* Opcodes over their operands alone: object is the stack, the arrays and  *)
(* the tables of a machine, filled by pushes, CreateList and CreateTable,  *)
(* and outcome the opcode run on it last, its operand and the machine it   *)
(* started from.                                                           *)
(***************************************************************************)
MaxOperands == 4
MaxLists == 1

\* the OpCode::CmpAnd arm of Vm::run
CmpAnd(m) ==
    IF Len(m.stack) < 2 THEN Panic(m)
    ELSE LET rhs == Last(m)
             lhs == m.stack[Len(m.stack) - 1]
         IN  IF is_false(lhs) /\ is_false(rhs) THEN push(pop(pop(m)), VBool(FALSE))
             ELSE push(pop(pop(m)), VBool(TRUE))

\* the OpCode::CmpOr arm of Vm::run
CmpOr(m) ==
    IF Len(m.stack) < 2 THEN Panic(m)
    ELSE LET rhs == Last(m)
             lhs == m.stack[Len(m.stack) - 1]
         IN  IF ~is_false(lhs) \/ ~is_false(rhs) THEN push(pop(pop(m)), VBool(TRUE))
             ELSE push(pop(pop(m)), VBool(FALSE))

\* a store that pads with the value stored
store_padded_with_value(array, index, value) ==
    [ (IF index >= Len(array)
       THEN array \o [k \in 1..(index - Len(array) + 1) |-> value]
       ELSE array) EXCEPT ![index + 1] = value ]

\* the Value::Array arm of SetTable: the array is pushed Unit for every
\* position from its length to index, then array[index] = value
store(array, index, value) ==
    [ (IF index >= Len(array)
       THEN array \o [k \in 1..(index - Len(array) + 1) |-> VUnit]
       ELSE array) EXCEPT ![index + 1] = value ]

\* the OpCode::SetTable arm of Vm::run; a negative index, cast to usize, is
\* past every length and the padding loop ends in a panic
SetTable(m) ==
    IF Len(m.stack) < 3 THEN Panic(m)
    ELSE LET value == Last(m)
             key == m.stack[Len(m.stack) - 1]
             table == m.stack[Len(m.stack) - 2]
             m1 == pop(pop(pop(m)))
         IN  IF table.t = "table" THEN [m1 EXCEPT !.tables[table.v] = insert(@, key, value)]
             ELSE IF table.t # "array" THEN Panic(m1)
             ELSE IF key.t # "int" THEN Panic(m1)
             ELSE IF key.v < 0 THEN Panic(m1)
             ELSE [m1 EXCEPT !.arrays[table.v] = store(@, key.v, value)]

\* the loop of the OpCode::CreateTable arm: value and key are popped and
\* inserted, size times
RECURSIVE PopEntries(_, _, _)
PopEntries(m, size, entries) ==
    IF size = 0 THEN [m EXCEPT !.tables = Append(@, entries)]
    ELSE IF Len(m.stack) < 2 THEN Panic(m)
    ELSE PopEntries(pop(pop(m)), size - 1,
                    insert(entries, m.stack[Len(m.stack) - 1], Last(m)))

\* the OpCode::CreateTable arm of Vm::run
CreateTable(m, size) ==
    IF PopEntries(m, size, <<>>).status # "run" THEN PopEntries(m, size, <<>>)
    ELSE push(PopEntries(m, size, <<>>), VTable(Len(m.tables) + 1))

OperandInit ==
    /\ NoVm
    /\ object = [stack |-> <<>>, arrays |-> <<>>, tables |-> <<>>, status |-> "run"]
    /\ outcome = [called |-> FALSE, op |-> "", a |-> 0, before |-> <<>>]

Operands ==
    {VUnit, VBool(TRUE), VBool(FALSE), VInt(0), VInt(1), VInt(-1)}
        \cup {VArray(i) : i \in 1..Len(object.arrays)}
        \cup {VTable(i) : i \in 1..Len(object.tables)}

\* the elements of the arrays from i on, counted
RECURSIVE ElementsFrom(_, _)
ElementsFrom(m, i) ==
    IF i > Len(m.arrays) THEN 0 ELSE Len(m.arrays[i]) + ElementsFrom(m, i + 1)

\* the keys and values of the tables from i on, counted
RECURSIVE EntriesFrom(_, _)
EntriesFrom(m, i) ==
    IF i > Len(m.tables) THEN 0 ELSE 2 * Len(m.tables[i]) + EntriesFrom(m, i + 1)

PushOperand ==
    /\ ~outcome.called
    /\ Len(object.stack) + ElementsFrom(object, 1) + EntriesFrom(object, 1) < MaxOperands
    /\ \E value \in Operands : object' = push(object, value)
    /\ UNCHANGED outcome
    /\ UNCHANGED VmVars

\* the values pushed so far become an array
ListOperands ==
    /\ ~outcome.called
    /\ Len(object.arrays) + Len(object.tables) < MaxLists
    /\ object' = CreateList(object, Len(object.stack))
    /\ UNCHANGED outcome
    /\ UNCHANGED VmVars

\* the values pushed so far, taken in pairs, become a table
TableOperands ==
    /\ ~outcome.called
    /\ Len(object.arrays) + Len(object.tables) < MaxLists
    /\ object' = CreateTable(object, Len(object.stack) \div 2)
    /\ UNCHANGED outcome
    /\ UNCHANGED VmVars

Ran(name, a, m) ==
    /\ ~outcome.called
    /\ object' = m
    /\ outcome' = [called |-> TRUE, op |-> name, a |-> a, before |-> object]
    /\ UNCHANGED VmVars

RunCmpAnd == Ran("CmpAnd", 0, CmpAnd(object))

RunCmpOr == Ran("CmpOr", 0, CmpOr(object))

RunSetTable == Ran("SetTable", 0, SetTable(object))

RunGetTable == Ran("GetTable", 0, GetTable(object))

RunCreateList == \E size \in 0..Len(object.stack) : Ran("CreateList", size, CreateList(object, size))

RunCreateTable ==
    \E size \in 0..(Len(object.stack) \div 2) : Ran("CreateTable", size, CreateTable(object, size))

DivisionOps == {"Divide", "IDivide", "Modulus"}

RunDivision == \E name \in DivisionOps : Ran(name, 0, Division(object, name))

OperandNext ==
    \/ RunDivision
    \/ PushOperand
    \/ ListOperands
    \/ TableOperands
    \/ RunCmpAnd
    \/ RunCmpOr
    \/ RunSetTable
    \/ RunGetTable
    \/ RunCreateList
    \/ RunCreateTable

OperandSpec == OperandInit /\ [][OperandNext]_vars

\* unit, false and integer 0 are falsy and every other value is truthy
Truthy(value) == value \notin {VUnit, VBool(FALSE), VInt(0)}

\* the opcode has run on a stack of at least n operands
RanOn(name, n) == outcome.called /\ outcome.op = name /\ Len(outcome.before.stack) >= n

\* the operand i places below the top of the stack the opcode started with
Operand(i) == outcome.before.stack[Len(outcome.before.stack) - i]

\* the stack the opcode started with, without its n topmost values
Below(n) == SubSeq(outcome.before.stack, 1, Len(outcome.before.stack) - n)

\* C29: CmpAnd pops rhs and lhs and pushes true exactly when both are
\* truthy, CmpOr exactly when one of them is, unit, false and integer 0 being
\* the falsy values
C29_CmpAndCmpOrTruthiness ==
    /\ RanOn("CmpAnd", 2) =>
          /\ object.status = "run"
          /\ object.stack = Append(Below(2), VBool(Truthy(Operand(1)) /\ Truthy(Operand(0))))
    /\ RanOn("CmpOr", 2) =>
          /\ object.status = "run"
          /\ object.stack = Append(Below(2), VBool(Truthy(Operand(1)) \/ Truthy(Operand(0))))

\* CmpOr alone is as the claim says
CmpOrTruthiness ==
    RanOn("CmpOr", 2) =>
        /\ object.status = "run"
        /\ object.stack = Append(Below(2), VBool(Truthy(Operand(1)) \/ Truthy(Operand(0))))

\* SetTable has run on a value, an integer key that is not negative and an array
StoredInArray ==
    /\ RanOn("SetTable", 3)
    /\ Operand(2).t = "array"
    /\ Operand(1).t = "int"
    /\ Operand(1).v >= 0

\* C30: SetTable on an array with integer index i past its end extends it to
\* i + 1 elements, unit from the old length to i - 1 and the value at i; with
\* i inside the array only position i changes; the other elements and the
\* other arrays are unchanged, and the three operands are popped and nothing
\* is pushed
C30_SetTableOnArray ==
    StoredInArray =>
        LET old == outcome.before.arrays[Operand(2).v]
            new == object.arrays[Operand(2).v]
            i == Operand(1).v
        IN  /\ object.status = "run"
            /\ object.stack = Below(3)
            /\ Len(new) = IF i >= Len(old) THEN i + 1 ELSE Len(old)
            /\ new[i + 1] = Operand(0)
            /\ \A k \in 1..Len(new) :
                  k # i + 1 => new[k] = IF k <= Len(old) THEN old[k] ELSE VUnit
            /\ \A a \in 1..Len(object.arrays) :
                  a # Operand(2).v => object.arrays[a] = outcome.before.arrays[a]
            /\ Len(object.arrays) = Len(outcome.before.arrays)

\* an empty array was stored into one place past its end
C30_Witness ==
    /\ StoredInArray
    /\ Len(outcome.before.arrays[Operand(2).v]) = 0
    /\ Operand(1).v = 1
    /\ Len(object.arrays[Operand(2).v]) = 2

\* GetTable has run on a table and a key the table does not hold
MissingKey ==
    /\ RanOn("GetTable", 2)
    /\ Operand(1).t = "table"
    /\ entry_of(outcome.before.tables[Operand(1).v], Operand(0)) = 0

\* GetTable has run on an array and an integer that is no index of it
OutOfRange ==
    /\ RanOn("GetTable", 2)
    /\ Operand(1).t = "array"
    /\ Operand(0).t = "int"
    /\ Operand(0).v \notin 0..Len(outcome.before.arrays[Operand(1).v]) - 1

\* C31: GetTable pushes unit for a key the table does not hold, and for an
\* array and an integer outside 0..length-1, negative ones too, run returns a
\* runtime error instead of aborting
C31_GetTableMissingOrOutOfRange ==
    /\ MissingKey =>
          /\ object.status = "run"
          /\ object.stack = Append(Below(2), VUnit)
    /\ OutOfRange => object.status \in RuntimeError

\* the table arm alone is as the claim says
GetTableMissingKey ==
    MissingKey =>
        /\ object.status = "run"
        /\ object.stack = Append(Below(2), VUnit)

\* the key and the value of pair j, in source order, of the size pairs that
\* CreateTable(size) started with
PairKey(j) == outcome.before.stack[Len(outcome.before.stack) - 2 * outcome.a + 2 * j - 1]

PairValue(j) == outcome.before.stack[Len(outcome.before.stack) - 2 * outcome.a + 2 * j]

\* the last pair, in source order, with the key of pair j
LastPair(j) == CHOOSE i \in j..outcome.a :
                   /\ PairKey(i) = PairKey(j)
                   /\ \A k \in (i + 1)..outcome.a : PairKey(k) # PairKey(j)

\* the table on top of the stack after CreateTable
Created == object.tables[object.stack[Len(object.stack)].v]

BuiltList ==
    /\ object.status = "run"
    /\ object.stack = Append(Below(outcome.a), VArray(Len(object.arrays)))
    /\ Len(object.arrays) = Len(outcome.before.arrays) + 1
    /\ object.arrays[Len(object.arrays)]
         = SubSeq(outcome.before.stack, Len(outcome.before.stack) - outcome.a + 1,
                  Len(outcome.before.stack))

BuiltTable ==
    /\ object.status = "run"
    /\ object.stack = Append(Below(2 * outcome.a), VTable(Len(object.tables)))
    /\ Len(object.tables) = Len(outcome.before.tables) + 1
    /\ \A j \in 1..outcome.a :
          /\ entry_of(Created, PairKey(j)) > 0
          /\ Created[entry_of(Created, PairKey(j))].value = PairValue(LastPair(j))

\* C32: CreateList(n) builds the array of the n popped values in the order
\* they were pushed; CreateTable(n) inserts the n pairs in source order, so
\* the later of two pairs with one key is the one stored
C32_CreateListAndTableInSourceOrder ==
    /\ RanOn("CreateList", outcome.a) => BuiltList
    /\ RanOn("CreateTable", 2 * outcome.a) => BuiltTable

\* CreateList alone is as the claim says
CreateListInSourceOrder == RanOn("CreateList", outcome.a) => BuiltList

\* CreateTable is as the claim says when no key occurs twice
CreateTableOfDistinctKeys ==
    (/\ RanOn("CreateTable", 2 * outcome.a)
     /\ \A i, j \in 1..outcome.a : PairKey(i) = PairKey(j) => i = j) => BuiltTable

\* one of the three division opcodes has run on two integers
Divided == outcome.called /\ outcome.op \in DivisionOps
              /\ Len(outcome.before.stack) >= 2
              /\ Operand(1).t = "int" /\ Operand(0).t = "int"

\* C34: Divide, IDivide and Modulus on two integers with a zero right operand
\* end in a runtime error returned by run, not in an abort
C34_IntegerDivisionByZero ==
    (Divided /\ Operand(0).v = 0) => object.status \in RuntimeError

\* with a right operand that is not zero the three opcodes push an integer
DivisionByNonZero ==
    (Divided /\ Operand(0).v # 0) =>
        /\ object.status = "run"
        /\ object.stack
             = Append(Below(2), VInt(IF outcome.op = "Modulus"
                                     THEN Remainder(Operand(1).v, Operand(0).v)
                                     ELSE Quotient(Operand(1).v, Operand(0).v)))

(***************************************************************************)
(* The scope resolver of one function under begin_scope, add_local,         *)
(* mark_captured and end_scope in any order: object is the compiler,        *)
(* outcome.opens the number of locals at each begin_scope that has no       *)
(* end_scope yet, outcome.before and outcome.mark the compiler and the      *)
(* number of locals at the matching begin_scope of the last end_scope       *)
(***************************************************************************)
MaxScopes == 2
MaxLocals == 3
MaxCloses == 2

\* the names of the locals, in the order they are added
Idents == <<"a", "b", "c", "d", "e">>

\* CompilerState::new(..).with_depth(depth)
BaseDepths == {0, 1}

ScopeInit ==
    /\ NoVm
    /\ \E depth \in BaseDepths :
          object = [Compiler(<<>>) EXCEPT !.states[1] = CompilerState("f", FALSE, depth, 0)]
    /\ outcome = [op |-> "", opens |-> <<>>, matched |-> FALSE, mark |-> 0, before |-> <<>>]

BeginScope ==
    /\ Cur(object).depth < Cur(object).base_depth + MaxScopes
    /\ object' = begin_scope(object)
    /\ outcome' = [outcome EXCEPT !.op = "begin_scope",
                                  !.opens = Append(@, Len(Cur(object).locals))]
    /\ UNCHANGED VmVars

AddLocal ==
    /\ Len(Cur(object).debug_locals) < MaxLocals
    /\ object' = add_local(object, Idents[Len(Cur(object).debug_locals) + 1])
    /\ outcome' = [outcome EXCEPT !.op = "add_local"]
    /\ UNCHANGED VmVars

\* resolve_upvalue of a nested function finds the local and marks it
MarkCaptured ==
    /\ \E index \in 0..Len(Cur(object).locals) - 1 :
          /\ ~Cur(object).locals[index + 1].is_captured
          /\ object' = [object EXCEPT !.states[object.state] = mark_captured(@, index)]
    /\ outcome' = [outcome EXCEPT !.op = "mark_captured"]
    /\ UNCHANGED VmVars

EndScope ==
    /\ Len(Cur(object).code) < MaxCloses
    /\ object' = end_scope(object)
    /\ outcome' = [op |-> "end_scope",
                   opens |-> IF outcome.opens = <<>> THEN <<>>
                             ELSE SubSeq(outcome.opens, 1, Len(outcome.opens) - 1),
                   matched |-> outcome.opens # <<>>,
                   mark |-> IF outcome.opens = <<>> THEN 0
                            ELSE outcome.opens[Len(outcome.opens)],
                   before |-> object]
    /\ UNCHANGED VmVars

ScopeNext == BeginScope \/ AddLocal \/ MarkCaptured \/ EndScope

ScopeSpec == ScopeInit /\ [][ScopeNext]_vars

\* the places, from 1, of the locals the last end_scope removed
Removed == (Len(Cur(object).locals) + 1)..Len(Cur(outcome.before).locals)

\* the opcodes the last end_scope emitted
Closes == SubSeq(Cur(object).code, Len(Cur(outcome.before).code) + 1, Len(Cur(object).code))

\* C33: under any sequence of begin_scope, add_local and end_scope, end_scope
\* removes exactly the locals added since the matching begin_scope, which are
\* those of a depth not below the current one; the compiler emits one
\* CloseUpvalue(slot) for each removed local that is captured and none for
\* the others; depth never drops below base_depth and the locals of the
\* scopes still open stay
C33_EndScopeRemovesItsLocals ==
    /\ Cur(object).depth >= Cur(object).base_depth
    /\ outcome.op = "end_scope" =>
          LET before == Cur(outcome.before)
              after == Cur(object)
          IN  /\ outcome.matched => after.locals = SubSeq(before.locals, 1, outcome.mark)
              /\ after.locals = SubSeq(before.locals, 1, Len(after.locals))
              /\ Removed = { i \in 1..Len(before.locals) : before.locals[i].depth >= before.depth }
              /\ SubSeq(after.code, 1, Len(before.code)) = before.code
              /\ \A k \in 1..Len(Closes) :
                    /\ Closes[k].op = "CloseUpvalue"
                    /\ Closes[k].a + 1 \in Removed
                    /\ before.locals[Closes[k].a + 1].is_captured
              /\ \A i \in Removed :
                    before.locals[i].is_captured =>
                        Cardinality({ k \in 1..Len(Closes) : Closes[k].a = i - 1 }) = 1
              /\ \A j \in 1..Len(outcome.opens) : Len(after.locals) >= outcome.opens[j]

\* an inner scope with a captured and a plain local was closed inside an
\* outer scope that holds a local
C33_Witness ==
    /\ outcome.op = "end_scope"
    /\ outcome.matched
    /\ outcome.opens # <<>>
    /\ Len(Cur(object).locals) >= 1
    /\ Cardinality(Removed) = 2
    /\ Len(Closes) = 1

ParsedKinds == Parsed("block") /\ outcome.input.check = "kinds"

\* a statement of the block before its last is a plain expression
PlainBeforeLast ==
    \E i \in 1..(Len(outcome.input.lines) - 1) : outcome.input.lines[i].kind = "int"

\* the last statement of the block is no expression
StatementLast == outcome.input.lines[Len(outcome.input.lines)].kind = "let"

\* C36: in a block of more than one statement every statement but the last,
\* the one before the last too, is no expression or an assignment or a call,
\* or else parsing fails with FoundExpressionWhenStatementWasExpected; and the
\* last is an expression, or else parsing fails with
\* FoundStatementWhereExpressionWasExpected
C36_BlockStatementKinds ==
    ParsedKinds =>
        /\ (PlainBeforeLast /\ ~StatementLast)
              => outcome.err = "FoundExpressionWhenStatementWasExpected"
        /\ (StatementLast /\ ~PlainBeforeLast)
              => outcome.err = "FoundStatementWhereExpressionWasExpected"
        /\ (PlainBeforeLast /\ StatementLast)
              => outcome.err \in {"FoundExpressionWhenStatementWasExpected",
                                  "FoundStatementWhereExpressionWasExpected"}
        /\ (~PlainBeforeLast /\ ~StatementLast) => outcome.err = ""

\* the claim holds of the blocks whose statement before the last is no plain
\* expression
BlockStatementKindsButOne ==
    (ParsedKinds /\ outcome.input.lines[Len(outcome.input.lines) - 1].kind # "int")
        => C36_BlockStatementKinds

\* the first statement of a source of assignments at indentations of their
\* own was asked for
ParsedIndents == Parsed("block") /\ outcome.input.check = "indents"

Indent(i) == outcome.input.lines[i].indent

\* the indentation of the construct that encloses the block of f
Enclosing == outcome.input.level

\* the first line up to which the lines stand at the indentation of the
\* first: 0 when no line differs
FirstOther ==
    IF \A j \in 1..Len(outcome.input.lines) : Indent(j) = Indent(1) THEN 0
    ELSE CHOOSE j \in 1..Len(outcome.input.lines) :
             /\ Indent(j) # Indent(1)
             /\ \A k \in 1..(j - 1) : Indent(k) = Indent(1)

\* the block of f in the statement that was parsed
BlockOfF ==
    IF Enclosing = 0 THEN outcome.v.expr.stmts ELSE outcome.v.expr.stmts[1].expr.stmts

FirstNotDeeper == ParsedIndents /\ Indent(1) <= Enclosing

LaterDeeper ==
    /\ ParsedIndents
    /\ Indent(1) > Enclosing
    /\ FirstOther > 0
    /\ Indent(FirstOther) > Indent(1)

EndsAtEnclosing ==
    /\ ParsedIndents
    /\ Indent(1) > Enclosing
    /\ FirstOther > 0
    /\ Indent(FirstOther) = Enclosing
    /\ \A j \in FirstOther..Len(outcome.input.lines) : Indent(j) = Enclosing

AtOneIndentation == ParsedIndents /\ Indent(1) > Enclosing /\ FirstOther = 0

\* C37: the statements of a block of several lines stand at one indentation
\* that is greater than the indentation of the enclosing construct: a first
\* statement at that indentation or a smaller one, and a later statement
\* that is indented deeper than the block, fail with InvalidIndentation, and
\* a statement at the enclosing indentation ends the block
C37_BlockIndentation ==
    /\ FirstNotDeeper => outcome.err = "InvalidIndentation"
    /\ LaterDeeper => outcome.err = "InvalidIndentation"
    /\ EndsAtEnclosing =>
          /\ outcome.err = ""
          /\ Len(BlockOfF) = FirstOther - 1
    /\ AtOneIndentation =>
          /\ outcome.err = ""
          /\ Len(BlockOfF) = Len(outcome.input.lines)

\* the claim holds of the blocks whose first statement stands elsewhere than
\* at the enclosing indentation
BlockIndentationButSame ==
    (ParsedIndents /\ Indent(1) # Enclosing) => C37_BlockIndentation

\* execute_module has returned a runtime error that came out of a call: of a
\* Call opcode, or of the call a native function made
ErrorOutOfCall == status \in RuntimeError /\ last.op \in {"Call", "map"}

\* the frames are the ones execute_module itself pushed: the top level of the
\* module and, above it, the function the host asked for
EntryFrames ==
    /\ Len(frames) = 2
    /\ ~closures[frame(Machine).closure].native
    /\ prototype(Machine, frame(Machine).closure).ident = "main"

\* C38: when a runtime error has come out of a Call - a wrong number of
\* arguments, an error of a native function, an error in a nested callee -
\* and out of execute_module, every frame pushed by the failing call is
\* popped again and the frames are the ones from before it
C38_FramesPoppedOnError == ErrorOutOfCall => EntryFrames

\* the claim holds when the callee of the Call opcode itself is refused
FramesKeptByRefusedCall == (ErrorOutOfCall /\ RefusedByCall) => EntryFrames

====
